---- MODULE Spec2Model ----
(***************************************************************************)
(* Asynchronous task-dispatch and credit-ledger pipeline of the            *)
(* backend_fastapi service: send_message / add_balance (API process),      *)
(* the broker queue, TaskConsumer, MLWorker and PredictionResultHandler    *)
(* (worker process), and the BalanceService / TransactionService ledger.   *)
(***************************************************************************)
EXTENDS Integers, Sequences, FiniteSets, TLC

(* ------------------------------ bounds --------------------------------- *)
\* number of predictions send_message may create in one run
MaxPredictions == 1
\* number of deposits add_balance may accept in one run
MaxDeposits == 1
\* number of requests the interleaved API sessions may accept in one run
MaxRequests == 2
\* largest balance and largest amount of the direct BalanceService calls
MaxLedgerBalance == 4
MaxAmount == 3
\* rows the direct handler calls may add to the transactions table
MaxHandlerRows == 2
MaxOpens == 2
\* deliveries the worker may take while the API sessions interleave
MaxDeliveries == 1

(* ------------------------- program constants --------------------------- *)
\* settings.ML_SERVICE_COST_PER_REQUEST
ML_REQUEST_COST == 10
\* MLTaskMessage.max_retries default
DEFAULT_MAX_RETRIES == 3
\* MessageValidator.MIN_LENGTH / MAX_LENGTH
MIN_LENGTH == 1
MAX_LENGTH == 10000
\* HistoryValidator.MAX_HISTORY_LENGTH
MAX_HISTORY_LENGTH == 100
\* add_balance upper limit
MAX_DEPOSIT == 10000
\* HistoryValidator.ALLOWED_ROLES
ALLOWED_ROLES == {"user", "assistant", "system"}

\* PredictionStatus
PENDING == "pending"
PROCESSING == "processing"
COMPLETED == "completed"
FAILED == "failed"
PredictionStatus == {PENDING, PROCESSING, COMPLETED, FAILED}

\* TransactionType
DEPOSIT == "deposit"
ML_REQUEST == "ml_request"
REFUND == "refund"

(* --------------------------- input domains ----------------------------- *)
Users == {"u1", "u2"}
\* a user without a user_balances row
NoRecord == -1
\* amounts a client posts to /balance/add (0 and 10001 are rejected)
DepositAmounts == {0, 10, 10001}
\* history entries: an object with or without 'role' / 'content', or a non-object
GoodItem == [isDict |-> TRUE, hasRole |-> TRUE, role |-> "user", hasContent |-> TRUE]
NoRoleItem == [isDict |-> TRUE, hasRole |-> FALSE, role |-> "", hasContent |-> TRUE]
\* a 'role' that is a JSON array or object
UNHASHABLE == "unhashable"
ListRoleItem == [isDict |-> TRUE, hasRole |-> TRUE, role |-> UNHASHABLE, hasContent |-> TRUE]
\* conversation_history values a client posts to /message
Histories == {<<>>, <<GoodItem, NoRoleItem>>}
\* conversation_history values HistoryValidator cannot look up in ALLOWED_ROLES
RaisingHistories == {<<GoodItem, ListRoleItem>>}
\* trimmed length of the message a client posts (PredictionCreate allows 1..2000)
MessageLengths == {2000}
\* answers of the inference backend: 200, an error mapped by OllamaService.chat,
\* or an exception escaping into MLWorker.process
BackendOutcomes == {"success", "failure", "exception"}
\* what TaskPublisherFactory._publisher holds when a publisher is asked for:
\* nothing yet, a publisher whose broker takes the message, or one whose
\* connect, queue declaration or publish fails
PublisherSlots == {"none", "connected", "unreachable"}
\* persistence faults: none, an exception inside _refund_user after the balance
\* credit, a failing commit
NoFaults == {"none"}
AllFaults == {"none", "refund_error", "commit_error"}

\* database sessions of the API processes
Sessions == {"s1", "s2"}
\* the user the interleaved sessions work for
ConcUsers == {"u1"}
\* balances and amounts of the direct BalanceService calls
LedgerBalances == {NoRecord} \cup (0 .. MaxLedgerBalance)
LedgerAmounts == 1 .. MaxAmount
\* cost_charged of the stored predictions the handlers are called on
StoredCosts == {0, ML_REQUEST_COST}
\* balances of the users of those predictions
StoredBalances == {NoRecord, 0}
\* error texts of a failed WorkerResult
ResultErrors == {"Service unavailable", "exception"}

(* ------------------------------ helpers -------------------------------- *)
RECURSIVE SumAmounts(_)
SumAmounts(s) == IF s = <<>> THEN 0 ELSE Head(s).amount + SumAmounts(Tail(s))

RECURSIVE SelectTx(_, _, _)
\* transactions of user u (of type t when t # "any")
SelectTx(s, u, t) ==
    IF s = <<>> THEN <<>>
    ELSE IF Head(s).user_id = u /\ (t = "any" \/ Head(s).type = t)
         THEN <<Head(s)>> \o SelectTx(Tail(s), u, t)
         ELSE SelectTx(Tail(s), u, t)

\* number of rows of type t that refer to prediction p
CountFor(s, p, t) == Cardinality({i \in DOMAIN s : s[i].ref = p /\ s[i].type = t})

(* ------------------------- MLTaskMessage ------------------------------- *)
\* can_retry with the comparison off by one
can_retry_inclusive(task) == task.retry_count <= task.max_retries

can_retry(task) == task.retry_count < task.max_retries

increment_retry_from_defaults(task) ==
    [task EXCEPT !.retry_count = task.retry_count + 1, !.priority = "NORMAL"]

\* model_copy(update={"retry_count": retry_count + 1})
increment_retry(task) == [task EXCEPT !.retry_count = task.retry_count + 1]

(* ------------------------------ publisher ------------------------------ *)
\* the fields class Settings declares
SettingsFields ==
    {"APP_NAME", "VERSION", "DB_HOST", "DB_PORT", "DB_NAME", "DB_USER", "DB_PASSWORD",
     "JWT_SECRET", "JWT_ALGORITHM", "ACCESS_TOKEN_EXPIRE_HOURS",
     "ML_SERVICE_COST_PER_REQUEST", "DEFAULT_USER_BALANCE", "OLLAMA_URL", "OLLAMA_MODEL",
     "RABBITMQ_HOST", "RABBITMQ_PORT", "RABBITMQ_USER", "RABBITMQ_PASS",
     "CORS_ORIGINS", "CORS_ALLOW_CREDENTIALS", "CORS_ALLOW_METHODS", "CORS_ALLOW_HEADERS"}

\* TaskPublisherFactory.get_publisher: the cached publisher, or TaskPublisher(),
\* whose __init__ reads settings.QUEUE_NAME
get_publisher(slot) ==
    IF slot # "none" \/ "QUEUE_NAME" \in SettingsFields THEN "publisher"
    ELSE "AttributeError"

\* publish(task) of an obtained publisher: True after the message was handed to
\* the broker, False when any step before that raised
publish(slot) == slot = "connected"

(* ---------------------------- validators ------------------------------- *)
\* an error text; item is the history index it names, -1 when it names none
Error(item, text) == [item |-> item, text |-> text]

\* MessageValidator.validate: list of errors for a trimmed message length
MessageValidator(len) ==
    IF len = 0 THEN <<Error(-1, "Message is required")>>
    ELSE (IF len < MIN_LENGTH THEN <<Error(-1, "Message cannot be empty")>> ELSE <<>>)
         \o (IF len > MAX_LENGTH
             THEN <<Error(-1, "Message exceeds maximum length")>> ELSE <<>>)

\* the entry check without the test for a 'content' field
ItemErrors_content_optional(idx, item) ==
    IF ~item.isDict THEN <<Error(idx, "must be an object")>>
    ELSE IF ~item.hasRole THEN <<Error(idx, "missing 'role' field")>>
    ELSE IF item.role \notin ALLOWED_ROLES THEN <<Error(idx, "has invalid role")>>
    ELSE <<>>

\* errors HistoryValidator reports for the entry at index idx
ItemErrors(idx, item) ==
    IF ~item.isDict THEN <<Error(idx, "must be an object")>>
    ELSE (IF ~item.hasRole THEN <<Error(idx, "missing 'role' field")>>
          ELSE IF item.role \notin ALLOWED_ROLES THEN <<Error(idx, "has invalid role")>>
          ELSE <<>>)
         \o (IF ~item.hasContent THEN <<Error(idx, "missing 'content' field")>> ELSE <<>>)

RECURSIVE HistoryErrors(_, _)
\* the loop over enumerate(history), from index idx on
HistoryErrors(idx, h) ==
    IF h = <<>> THEN <<>>
    ELSE ItemErrors(idx, Head(h)) \o HistoryErrors(idx + 1, Tail(h))

\* HistoryValidator.validate
HistoryValidator(h) ==
    IF Len(h) > MAX_HISTORY_LENGTH
    THEN <<Error(-1, "Conversation history exceeds maximum length")>>
    ELSE HistoryErrors(0, h)

\* HistoryValidator.validate raises TypeError: item["role"] not in ALLOWED_ROLES
\* hashes the role, and ALLOWED_ROLES is a set
HistoryRaises(h) ==
    /\ Len(h) <= MAX_HISTORY_LENGTH
    /\ \E i \in DOMAIN h : h[i].isDict /\ h[i].hasRole /\ h[i].role = UNHASHABLE

\* CompositeValidator.validate, and with it MLWorker.validate, raises
validate_raises(task) == HistoryRaises(task.conversation_history)

\* CompositeValidator.validate over [MessageValidator, HistoryValidator]:
\* ValidationResult.merge concatenates the errors and ands the verdicts
CompositeValidator(task) ==
    LET errs == MessageValidator(task.message) \o HistoryValidator(task.conversation_history)
    IN  [is_valid |-> (MessageValidator(task.message) = <<>>)
                      /\ (HistoryValidator(task.conversation_history) = <<>>),
         errors |-> errs]

(* --------------------- BalanceService / TransactionService ------------- *)
get_balance(bal, u) == IF bal[u] = NoRecord THEN 0 ELSE bal[u]

\* has_sufficient_balance that accepts a balance one request short
has_sufficient_balance_lenient(bal, u, amount) == get_balance(bal, u) + amount >= amount

has_sufficient_balance(bal, u, amount) == get_balance(bal, u) >= amount

\* deduct without the balance < amount test
deduct_unchecked(bal, u, amount) ==
    IF bal[u] = NoRecord
    THEN [ok |-> FALSE, bal |-> bal]
    ELSE [ok |-> TRUE, bal |-> [bal EXCEPT ![u] = bal[u] - amount]]

\* deduct: the returned flag and the balance map as the session sees it afterwards
deduct(bal, u, amount) ==
    IF bal[u] = NoRecord \/ bal[u] < amount
    THEN [ok |-> FALSE, bal |-> bal]
    ELSE [ok |-> TRUE, bal |-> [bal EXCEPT ![u] = bal[u] - amount]]

\* refund that opens a balance row when there is none
refund_creating(bal, u, amount) ==
    [ok |-> TRUE, bal |-> [bal EXCEPT ![u] = get_balance(bal, u) + amount]]

\* refund that finds the row but does not credit it
refund_ignored(bal, u, amount) == [ok |-> bal[u] # NoRecord, bal |-> bal]

refund(bal, u, amount) ==
    IF bal[u] = NoRecord
    THEN [ok |-> FALSE, bal |-> bal]
    ELSE [ok |-> TRUE, bal |-> [bal EXCEPT ![u] = bal[u] + amount]]

\* an ML_Request row written with the sign of a credit
create_ml_request_transaction_credit(u, amount, p) ==
    [user_id |-> u, type |-> ML_REQUEST, amount |-> amount, ref |-> p]

create_ml_request_transaction(u, amount, p) ==
    [user_id |-> u, type |-> ML_REQUEST, amount |-> -amount, ref |-> p]

\* a Refund row written with the sign of a debit
create_refund_transaction_negated(u, amount, p) ==
    [user_id |-> u, type |-> REFUND, amount |-> -amount, ref |-> p]

create_refund_transaction(u, amount, p) ==
    [user_id |-> u, type |-> REFUND, amount |-> amount, ref |-> p]

\* PredictionService.create_pending
create_pending(u, cost) ==
    [user_id |-> u, status |-> PENDING, cost_charged |-> cost,
     error_message |-> <<>>, result |-> <<>>]

(* --------------------- PredictionStatusUpdater ------------------------- *)
\* mark_processing that reports success whether or not the row exists
mark_processing_reports_true(preds, p, fault) ==
    IF p \notin DOMAIN preds THEN [ok |-> TRUE, preds |-> preds]
    ELSE [ok |-> TRUE, preds |-> [preds EXCEPT ![p].status = PROCESSING]]

\* mark_processing that finds the row and commits without setting the status
mark_processing_keeps_status(preds, p, fault) ==
    [ok |-> p \in DOMAIN preds /\ fault # "commit_error", preds |-> preds]

\* mark_processing: returned flag and the committed predictions
mark_processing(preds, p, fault) ==
    IF p \notin DOMAIN preds THEN [ok |-> FALSE, preds |-> preds]
    ELSE IF fault = "commit_error" THEN [ok |-> FALSE, preds |-> preds]
    ELSE [ok |-> TRUE, preds |-> [preds EXCEPT ![p].status = PROCESSING]]

\* mark_failed that stores the error but leaves the status alone
mark_failed_keeps_status(preds, p, error, fault) ==
    IF p \notin DOMAIN preds THEN [ok |-> FALSE, preds |-> preds]
    ELSE IF fault = "commit_error" THEN [ok |-> FALSE, preds |-> preds]
    ELSE [ok |-> TRUE, preds |-> [preds EXCEPT ![p].error_message = error]]

mark_failed(preds, p, error, fault) ==
    IF p \notin DOMAIN preds THEN [ok |-> FALSE, preds |-> preds]
    ELSE IF fault = "commit_error" THEN [ok |-> FALSE, preds |-> preds]
    ELSE [ok |-> TRUE,
          preds |-> [preds EXCEPT ![p].status = FAILED, ![p].error_message = error]]

(* --------------------- PredictionResultHandler ------------------------- *)
\* _refund_user without the refund_amount <= 0 return
refund_user_any_cost(bal, txs, pred, p, fault) ==
    LET r == refund(bal, pred.user_id, pred.cost_charged)
    IN  [bal |-> r.bal,
         txs |-> Append(txs, create_refund_transaction(pred.user_id, pred.cost_charged, p))]

\* _refund_user on the session's pending state; every exception is swallowed.
\* "refund_error" is an exception raised after BalanceService.refund and before
\* the Refund row is added.
refund_user(bal, txs, pred, p, fault) ==
    IF pred.cost_charged <= 0 THEN [bal |-> bal, txs |-> txs]
    ELSE LET r == refund(bal, pred.user_id, pred.cost_charged)
         IN  IF fault = "refund_error" THEN [bal |-> r.bal, txs |-> txs]
             ELSE [bal |-> r.bal,
                   txs |-> Append(txs, create_refund_transaction(
                                           pred.user_id, pred.cost_charged, p))]

\* handle whose failure branch stores no error_message
handle_without_error(result, preds, bal, txs, fault) ==
    LET p == result.prediction_id
        unchanged == [ok |-> FALSE, preds |-> preds, bal |-> bal, txs |-> txs]
    IN  IF p \notin DOMAIN preds THEN unchanged
        ELSE IF result.success
        THEN IF fault = "commit_error" THEN unchanged
             ELSE [ok |-> TRUE,
                   preds |-> [preds EXCEPT ![p].status = COMPLETED,
                                           ![p].result = <<"response", result.response>>,
                                           ![p].error_message = <<>>],
                   bal |-> bal, txs |-> txs]
        ELSE LET failed == [preds EXCEPT ![p].status = FAILED,
                                         ![p].result = <<"error", result.error>>]
                 r == refund_user(bal, txs, preds[p], p, fault)
             IN  IF fault = "commit_error" THEN unchanged
                 ELSE [ok |-> TRUE, preds |-> failed, bal |-> r.bal, txs |-> r.txs]

\* handle whose success branch leaves error_message as it was
handle_keeps_error(result, preds, bal, txs, fault) ==
    LET p == result.prediction_id
        unchanged == [ok |-> FALSE, preds |-> preds, bal |-> bal, txs |-> txs]
    IN  IF p \notin DOMAIN preds THEN unchanged
        ELSE IF result.success
        THEN IF fault = "commit_error" THEN unchanged
             ELSE [ok |-> TRUE,
                   preds |-> [preds EXCEPT ![p].status = COMPLETED,
                                           ![p].result = <<"response", result.response>>],
                   bal |-> bal, txs |-> txs]
        ELSE LET failed == [preds EXCEPT ![p].status = FAILED,
                                         ![p].error_message = <<Error(-1, result.error)>>,
                                         ![p].result = <<"error", result.error>>]
                 r == refund_user(bal, txs, preds[p], p, fault)
             IN  IF fault = "commit_error" THEN unchanged
                 ELSE [ok |-> TRUE, preds |-> failed, bal |-> r.bal, txs |-> r.txs]

\* handle: returned flag and the committed predictions, balances, transactions.
\* bal is the balance table as the handler's session reads it.
handle(result, preds, bal, txs, fault) ==
    LET p == result.prediction_id
        unchanged == [ok |-> FALSE, preds |-> preds, bal |-> bal, txs |-> txs]
    IN  IF p \notin DOMAIN preds THEN unchanged
        ELSE IF result.success
        THEN IF fault = "commit_error" THEN unchanged
             ELSE [ok |-> TRUE,
                   preds |-> [preds EXCEPT ![p].status = COMPLETED,
                                           ![p].result = <<"response", result.response>>,
                                           ![p].error_message = <<>>],
                   bal |-> bal, txs |-> txs]
        ELSE LET failed == [preds EXCEPT ![p].status = FAILED,
                                         ![p].error_message = <<Error(-1, result.error)>>,
                                         ![p].result = <<"error", result.error>>]
                 r == refund_user(bal, txs, preds[p], p, fault)
             IN  IF fault = "commit_error" THEN unchanged
                 ELSE [ok |-> TRUE, preds |-> failed, bal |-> r.bal, txs |-> r.txs]

(* ----------------------------- TaskConsumer ---------------------------- *)
\* leaving message.process with a rejection that asks for redelivery
process_exit_requeue(d, raised) == [d EXCEPT !.rejects = d.rejects + 1, !.requeue = TRUE]

\* leaving the "async with message.process(requeue=False)" block: ack when the
\* body ended normally, reject with the block's requeue flag when it raised
process_exit(d, raised) ==
    IF raised THEN [d EXCEPT !.rejects = d.rejects + 1]
    ELSE [d EXCEPT !.acks = d.acks + 1]

(* -------------------------- RabbitMQConnection ------------------------- *)
\* the prefetch_count get_channel gives to set_qos
PREFETCH_COUNT == 1

\* a RabbitMQConnection just constructed. connections and channels are the
\* objects aio_pika has created so far, by identity (0 is None); closed lists
\* what the last close() call closed, in order
NoConnection == [connection |-> 0, channel |-> 0, connections |-> <<>>, channels |-> <<>>,
                 closed |-> <<>>]

\* self._connection is None or self._connection.is_closed
needs_connect(m) == m.connection = 0 \/ ~m.connections[m.connection]

\* aio_pika.connect_robust and the assignment to self._connection
connect_robust(m) ==
    [m EXCEPT !.connections = Append(m.connections, TRUE),
              !.connection = Len(m.connections) + 1]

connect(m) == IF needs_connect(m) THEN connect_robust(m) ELSE m

needs_channel_none_only(m) == m.channel = 0

\* self._channel is None or self._channel.is_closed
needs_channel(m) == m.channel = 0 \/ ~m.channels[m.channel].open

\* connection.channel() on connection conn and the assignment to self._channel
open_channel(m, conn) ==
    [m EXCEPT !.channels = Append(m.channels,
                                  [connection |-> conn, open |-> TRUE, prefetch |-> 0]),
              !.channel = Len(m.channels) + 1]

\* channel.set_qos(prefetch_count=n) on channel ch
set_qos(m, ch, n) == [m EXCEPT !.channels[ch].prefetch = n]

\* get_channel run without interruption; the channel returned is .channel
get_channel(m) ==
    LET c == connect(m)
    IN  IF needs_channel(c)
        THEN set_qos(open_channel(c, c.connection), Len(c.channels) + 1, PREFETCH_COUNT)
        ELSE c

\* connection k is closed, and with it every channel opened on it
close_connection(m, k) ==
    [m EXCEPT !.connections[k] = FALSE,
              !.channels = [i \in DOMAIN m.channels |->
                               IF m.channels[i].connection = k
                               THEN [m.channels[i] EXCEPT !.open = FALSE]
                               ELSE m.channels[i]]]

\* close(): the channel part
close_held_channel(m) ==
    IF m.channel # 0 /\ m.channels[m.channel].open
    THEN [m EXCEPT !.channels[m.channel].open = FALSE, !.channel = 0,
                   !.closed = Append(m.closed, "channel")]
    ELSE m

\* close(): the connection part
close_held_connection(m) ==
    IF m.connection # 0 /\ m.connections[m.connection]
    THEN [close_connection(m, m.connection) EXCEPT !.connection = 0,
                                                   !.closed = Append(m.closed, "connection")]
    ELSE m

close_connection_first(m) ==
    close_held_channel(close_held_connection([m EXCEPT !.closed = <<>>]))

close(m) == close_held_connection(close_held_channel([m EXCEPT !.closed = <<>>]))

(* ------------------------------- state --------------------------------- *)
VARIABLES
    balance,        \* user_balances: user -> balance, NoRecord when the row is absent
    transactions,   \* transactions table, in insertion order
    predictions,    \* predictions table: prediction id (1..n) -> row
    deposits,       \* number of deposits accepted so far
    http,           \* last HTTP response of the API process
    queue,          \* broker queue "ml_tasks", oldest first
    wpc,            \* position of the worker process in process_message / execute
    wtask,          \* the message being processed by the worker
    wresult,        \* the WorkerResult of the current execute
    wret,           \* what the last handle / mark_* call of the worker returned
    exhausted,      \* predictions whose task hit the "failed after max retries" branch
    consumed,       \* predictions for which a message was delivered to the worker
    backend_calls,  \* prediction id -> number of OllamaService.chat calls
    api,            \* API session -> the request it serves and the balance it read
    wseen,          \* user_balances as read by the session of the running handle
    call,           \* the last direct BalanceService call and what it returned
    delivery,       \* what the worker told the broker about the current delivery
    redelivered,    \* the store as the first delivery of a redelivered task left it
    mq,             \* the RabbitMQConnection singleton of the process
    getting,        \* caller -> its position inside get_channel
    runner,         \* WorkerRunner: running, stopping or exited
    counts,         \* _processed_count and _failed_count of the worker instance
    deliveries      \* prediction id -> number of its tasks handed to the handler

vars == <<balance, transactions, predictions, deposits, http, queue, wpc, wtask,
          wresult, wret, exhausted, consumed, backend_calls, api, wseen, call,
          delivery, redelivered, mq, getting, runner, counts, deliveries>>

NoTask == [prediction_id |-> 0, user_id |-> "", message |-> 0,
           conversation_history |-> <<>>, retry_count |-> 0, max_retries |-> 0]
NoResult == [success |-> FALSE, prediction_id |-> 0, response |-> "", error |-> ""]
IdleSession == [pc |-> "idle", user |-> "", seen |-> NoRecord, amount |-> 0,
                message |-> 0, history |-> <<>>]
NoDelivery == [acks |-> 0, rejects |-> 0, requeue |-> FALSE]
NoCall == [op |-> "none", user |-> "", amount |-> 0, ok |-> FALSE,
           before |-> [u \in Users |-> NoRecord]]

Callers == {"c1", "c2"}
IdleCaller == [pc |-> "idle", connection |-> 0, channel |-> 0]
NoSnapshot == [taken |-> FALSE, predictions |-> <<>>, balance |-> [u \in Users |-> NoRecord],
               transactions |-> <<>>, deposits |-> 0]
Running == [state |-> "running", in_flight |-> FALSE]
NoCounts == [processed_count |-> 0, failed_count |-> 0]
\* the ids a prediction can get within the bounds on requests
PredictionIds == 1 .. (MaxPredictions + MaxRequests)

\* the end of execute counting every returned result as processed
count_result_always_processed(c, success) ==
    [c EXCEPT !.processed_count = @ + 1]

\* BaseWorker.execute after process returned: one of the two counters moves
count_result(c, success) ==
    IF success THEN [c EXCEPT !.processed_count = @ + 1]
    ELSE [c EXCEPT !.failed_count = @ + 1]

\* a process whose RabbitMQConnection is m
InitInfra(m) ==
    /\ redelivered = NoSnapshot
    /\ mq = m
    /\ getting = [c \in Callers |-> IdleCaller]
    /\ runner = Running
    /\ counts = NoCounts
    /\ deliveries = [p \in PredictionIds |-> 0]

\* the worker process after BaseConsumer.start obtained its channel
Started == get_channel(NoConnection)

\* everything but the balances and the broker connection
InitRest ==
    /\ transactions = <<>>
    /\ predictions = <<>>
    /\ deposits = 0
    /\ http = [op |-> "none", code |-> 0, status |-> ""]
    /\ queue = <<>>
    /\ wpc = "idle"
    /\ wtask = NoTask
    /\ wresult = NoResult
    /\ wret = "none"
    /\ exhausted = {}
    /\ consumed = {}
    /\ backend_calls = <<>>
    /\ api = [s \in Sessions |-> IdleSession]
    /\ wseen = [u \in Users |-> NoRecord]
    /\ call = NoCall
    /\ delivery = NoDelivery

\* no request served yet; a user has no balance row or an empty one
Init ==
    /\ balance \in [Users -> {NoRecord, 0}]
    /\ InitRest
    /\ InitInfra(Started)

ledger == <<balance, transactions>>
worker == <<wpc, wtask, wresult, wret, exhausted, consumed, backend_calls, wseen,
           delivery>>
sessions == <<api, call>>
infra == <<redelivered, mq, getting, runner, counts, deliveries>>

(* ----------------------------- API process ----------------------------- *)
\* POST /balance/add
add_balance(u, amount) ==
    /\ deposits < MaxDeposits
    /\ IF amount <= 0 \/ amount > MAX_DEPOSIT
       THEN /\ http' = [op |-> "add_balance", code |-> 400, status |-> ""]
            /\ UNCHANGED <<balance, transactions, deposits>>
       ELSE /\ balance' = [balance EXCEPT ![u] = get_balance(balance, u) + amount]
            /\ transactions' = Append(transactions,
                   [user_id |-> u, type |-> DEPOSIT, amount |-> amount, ref |-> 0])
            /\ deposits' = deposits + 1
            /\ http' = [op |-> "add_balance", code |-> 200, status |-> ""]
    /\ UNCHANGED <<infra, predictions, queue, worker, sessions>>

\* the MLTaskMessage send_message builds
new_task(p, u, len, hist) ==
    [prediction_id |-> p, user_id |-> u, message |-> len,
     conversation_history |-> hist, retry_count |-> 0,
     max_retries |-> DEFAULT_MAX_RETRIES]

\* send_message that answers 500 when the task was not published
send_response_strict(obtained, published, status) ==
    IF obtained # "publisher" \/ ~published
    THEN [op |-> "send_message", code |-> 500, status |-> ""]
    ELSE [op |-> "send_message", code |-> 200, status |-> status]

\* the response of send_message once the rows are committed: an exception of
\* get_publisher becomes a 500, a False of publish is only logged; status is
\* the refreshed prediction's
send_response(obtained, published, status) ==
    IF obtained # "publisher"
    THEN [op |-> "send_message", code |-> 500, status |-> ""]
    ELSE [op |-> "send_message", code |-> 200, status |-> status]

\* POST /message; slot is the state of the publisher factory
send_message(u, len, hist, slot) ==
    /\ Len(predictions) < MaxPredictions
    /\ IF ~has_sufficient_balance(balance, u, ML_REQUEST_COST)
       THEN /\ http' = [op |-> "send_message", code |-> 402, status |-> ""]
            /\ UNCHANGED <<balance, transactions, predictions, queue, backend_calls>>
       ELSE LET p == Len(predictions) + 1
                d == deduct(balance, u, ML_REQUEST_COST)
                obtained == get_publisher(slot)
                published == obtained = "publisher" /\ publish(slot)
            IN  /\ predictions' = Append(predictions, create_pending(u, ML_REQUEST_COST))
                /\ balance' = d.bal
                /\ transactions' = Append(transactions,
                       create_ml_request_transaction(u, ML_REQUEST_COST, p))
                /\ queue' = IF published
                            THEN Append(queue, new_task(p, u, len, hist))
                            ELSE queue
                /\ backend_calls' = Append(backend_calls, 0)
                /\ http' = send_response(obtained, published, predictions'[p].status)
    /\ UNCHANGED <<infra, deposits, delivery, wpc, wtask, wresult, wret, exhausted, consumed, wseen, sessions>>

(* ---------------------------- worker process --------------------------- *)
\* deliveries of the consumer's channel the broker has no answer for yet
Unacked == IF wpc \in {"idle", "exited"} THEN 0 ELSE 1

CanDeliver_unlimited == mq.channel # 0

\* the broker may push another message on the consumer's channel: its
\* prefetch count is 0 (no limit) or not reached
CanDeliver ==
    /\ mq.channel # 0
    /\ mq.channels[mq.channel].prefetch = 0 \/ Unacked < mq.channels[mq.channel].prefetch

\* TaskConsumer.process_message: a delivery is decoded and handed to the
\* handler; "overlap" is a delivery handed over while another is in progress
Receive ==
    /\ runner.state # "exited"
    /\ queue # <<>>
    /\ CanDeliver
    /\ IF wpc = "idle"
       THEN /\ wtask' = Head(queue)
            /\ queue' = Tail(queue)
            /\ wpc' = "validate"
            /\ wresult' = NoResult
            /\ wret' = "none"
            /\ consumed' = consumed \cup {Head(queue).prediction_id}
            /\ deliveries' = [deliveries EXCEPT ![Head(queue).prediction_id] = @ + 1]
            /\ delivery' = NoDelivery
       ELSE /\ wpc' = "overlap"
            /\ UNCHANGED <<wtask, queue, wresult, wret, consumed, delivery, deliveries>>
    /\ UNCHANGED <<redelivered, mq, getting, runner, counts, ledger, predictions, deposits, http, exhausted, backend_calls, wseen, sessions>>

\* BaseWorker.execute up to the validation verdict (MLWorker.validate); an
\* exception of the validator leaves execute and is caught in process_message
Validate(F) ==
    /\ wpc = "validate"
    /\ LET v == CompositeValidator(wtask)
       IN  IF validate_raises(wtask)
           THEN /\ wpc' = "ack"
                /\ UNCHANGED <<predictions, wresult, wret, counts>>
           ELSE IF v.is_valid
           THEN /\ wpc' = "process"
                /\ UNCHANGED <<predictions, wresult, wret, counts>>
           ELSE \E fault \in F \ {"refund_error"} :
                LET m == mark_failed(predictions, wtask.prediction_id,
                                     <<Error(-1, "Validation error")>> \o v.errors, fault)
                IN  /\ predictions' = m.preds
                    /\ wret' = IF m.ok THEN "true" ELSE "false"
                    /\ wresult' = [success |-> FALSE,
                                   prediction_id |-> wtask.prediction_id,
                                   response |-> "", error |-> "Validation failed"]
                    /\ counts' = [counts EXCEPT !.failed_count = @ + 1]
                    /\ wpc' = "consume"
    /\ UNCHANGED <<redelivered, mq, getting, runner, deliveries, ledger, deposits, http, delivery, queue, wtask, exhausted, consumed, backend_calls,
                 wseen, sessions>>

\* MLWorker.process: status_updater.mark_processing
MarkProcessing(F) ==
    /\ wpc = "process"
    /\ \E fault \in F \ {"refund_error"} :
       LET m == mark_processing(predictions, wtask.prediction_id, fault)
       IN  /\ predictions' = m.preds
           /\ wret' = IF m.ok THEN "true" ELSE "false"
    /\ wpc' = "chat"
    /\ UNCHANGED <<infra, ledger, deposits, http, delivery, queue, wtask, wresult, exhausted, consumed,
                 backend_calls, wseen, sessions>>

\* MLWorker.process: the inference call and the WorkerResult built from it
Chat ==
    /\ wpc = "chat"
    /\ \E outcome \in BackendOutcomes :
       wresult' = [success |-> outcome = "success",
                   prediction_id |-> wtask.prediction_id,
                   response |-> IF outcome = "success" THEN "content" ELSE "",
                   error |-> IF outcome = "success" THEN ""
                             ELSE IF outcome = "failure" THEN "Service unavailable"
                             ELSE "exception"]
    /\ backend_calls' = [backend_calls EXCEPT ![wtask.prediction_id] = @ + 1]
    /\ wpc' = "handle"
    /\ UNCHANGED <<infra, ledger, predictions, deposits, http, delivery, queue, wtask, wret, exhausted,
                 consumed, wseen, sessions>>

\* MLWorker.process: self._result_handler.handle(result, db); the flag is
\* dropped, process returns the result and execute counts it
Handle(F) ==
    /\ wpc = "handle"
    /\ \E fault \in F :
       LET h == handle(wresult, predictions, balance, transactions, fault)
       IN  /\ predictions' = h.preds
           /\ balance' = h.bal
           /\ transactions' = h.txs
           /\ wret' = IF h.ok THEN "true" ELSE "false"
    /\ counts' = count_result(counts, wresult.success)
    /\ wpc' = "consume"
    /\ UNCHANGED <<redelivered, mq, getting, runner, deliveries, deposits, http, delivery, queue, wtask, wresult, exhausted, consumed, backend_calls,
                 wseen, sessions>>

\* the failure path crediting the cost back when the retries are used up
ConsumeRefunding ==
    /\ wpc = "consume"
    /\ IF wresult.success
       THEN UNCHANGED <<queue, exhausted, balance>>
       ELSE IF can_retry(wtask)
            THEN /\ \E slot \in PublisherSlots :
                      queue' = IF get_publisher(slot) = "publisher" /\ publish(slot)
                               THEN Append(queue, increment_retry(wtask))
                               ELSE queue
                 /\ UNCHANGED <<exhausted, balance>>
            ELSE /\ exhausted' = exhausted \cup {wtask.prediction_id}
                 /\ balance' = refund(balance, wtask.user_id, ML_REQUEST_COST).bal
                 /\ UNCHANGED queue
    /\ wpc' = "ack"
    /\ UNCHANGED <<infra, transactions, predictions, deposits, http, delivery, wtask, wresult, wret,
                 consumed, backend_calls, wseen, sessions>>

\* TaskConsumer.process_message after the handler returned result.success,
\* with _handle_failure; an exception of get_publisher ends in the except
\* clause of process_message
Consume ==
    /\ wpc = "consume"
    /\ IF wresult.success
       THEN UNCHANGED <<queue, exhausted>>
       ELSE IF can_retry(wtask)
            THEN /\ \E slot \in PublisherSlots :
                      queue' = IF get_publisher(slot) = "publisher" /\ publish(slot)
                               THEN Append(queue, increment_retry(wtask))
                               ELSE queue
                 /\ UNCHANGED exhausted
            ELSE /\ exhausted' = exhausted \cup {wtask.prediction_id}
                 /\ UNCHANGED queue
    /\ wpc' = "ack"
    /\ UNCHANGED <<infra, ledger, predictions, deposits, http, delivery, wtask, wresult, wret,
                 consumed, backend_calls, wseen, sessions>>

\* TaskConsumer.process_message: the end of the message.process block; every
\* exception was caught inside it
Ack ==
    /\ wpc = "ack"
    /\ delivery' = process_exit(delivery, FALSE)
    /\ wpc' = "idle"
    /\ wtask' = NoTask
    /\ UNCHANGED <<infra, ledger, predictions, deposits, http, queue, wresult, wret, exhausted,
                 consumed, backend_calls, wseen, sessions>>

(* --------------------------- specifications ---------------------------- *)
ApiStep ==
    \/ \E u \in Users, a \in DepositAmounts : add_balance(u, a)
    \/ \E u \in Users, len \in MessageLengths, h \in Histories, slot \in PublisherSlots :
          send_message(u, len, h, slot)

\* the store never fails
Next ==
    \/ ApiStep
    \/ Receive
    \/ Validate(NoFaults)
    \/ MarkProcessing(NoFaults)
    \/ Chat
    \/ Handle(NoFaults)
    \/ Consume
    \/ Ack

Spec == Init /\ [][Next]_vars

\* the store may fail inside the worker's persistence calls
NextFaulty ==
    \/ ApiStep
    \/ Receive
    \/ Validate(AllFaults)
    \/ MarkProcessing(AllFaults)
    \/ Chat
    \/ Handle(AllFaults)
    \/ Consume
    \/ Ack

SpecFaulty == Init /\ [][NextFaulty]_vars

(* ------------- deliveries the handler does not get through ------------- *)
\* a delivery whose body MLTaskMessage.from_json rejects: the exception is
\* caught before the handler is called
ReceiveUndecodable ==
    /\ wpc = "idle"
    /\ delivery' = NoDelivery
    /\ wresult' = NoResult
    /\ wret' = "none"
    /\ wpc' = "ack"
    /\ UNCHANGED <<infra, ledger, predictions, deposits, http, queue, wtask, exhausted, consumed,
                 backend_calls, wseen, sessions>>

\* the handler raises: the session factory fails before MLWorker.process enters
\* its try block
HandlerRaises ==
    /\ wpc = "process"
    /\ wpc' = "ack"
    /\ UNCHANGED <<infra, ledger, predictions, deposits, http, queue, delivery, wtask, wresult, wret,
                 exhausted, consumed, backend_calls, wseen, sessions>>

\* POST /message with a history the worker's validator raises on
SendRaising ==
    \E u \in Users, len \in MessageLengths, h \in RaisingHistories, slot \in PublisherSlots :
        send_message(u, len, h, slot)

NextConsumer ==
    \/ Next
    \/ SendRaising
    \/ ReceiveUndecodable
    \/ HandlerRaises

SpecConsumer == Init /\ [][NextConsumer]_vars

\* the steps of the worker process on a delivered task
WorkerStep ==
    \/ Receive
    \/ Validate(NoFaults)
    \/ MarkProcessing(NoFaults)
    \/ Chat
    \/ Handle(NoFaults)
    \/ Consume
    \/ Ack

\* the same pipeline with a worker that keeps running and a broker that
\* delivers every queued task in the end
SpecLive == Init /\ [][NextConsumer]_vars /\ WF_vars(WorkerStep) /\ SF_vars(Receive)

(* ------------------ direct calls of the BalanceService ----------------- *)
\* any balance table; nothing else has happened
InitLedger ==
    /\ balance \in [Users -> LedgerBalances]
    /\ InitRest
    /\ InitInfra(Started)

\* BalanceService(db).deduct(u, amount) on the current table
DeductCall(u, amount) ==
    /\ LET d == deduct(balance, u, amount)
       IN  /\ balance' = d.bal
           /\ call' = [op |-> "deduct", user |-> u, amount |-> amount, ok |-> d.ok,
                       before |-> balance]
    /\ UNCHANGED <<infra, transactions, predictions, deposits, http, queue, worker, api>>

\* BalanceService(db).refund(u, amount) on the current table
RefundCall(u, amount) ==
    /\ get_balance(balance, u) + amount <= MaxLedgerBalance
    /\ LET r == refund(balance, u, amount)
       IN  /\ balance' = r.bal
           /\ call' = [op |-> "refund", user |-> u, amount |-> amount, ok |-> r.ok,
                       before |-> balance]
    /\ UNCHANGED <<infra, transactions, predictions, deposits, http, queue, worker, api>>

NextLedger ==
    \/ \E u \in Users, a \in LedgerAmounts : DeductCall(u, a)
    \/ \E u \in Users, a \in LedgerAmounts : RefundCall(u, a)

SpecLedger == InitLedger /\ [][NextLedger]_vars

(* --------------- direct calls of the worker's handlers ------------------ *)
\* the predictions tables with up to n rows, of any user and stored cost
RECURSIVE StoredTables(_)
StoredTables(n) ==
    IF n = 0 THEN {<<>>}
    ELSE StoredTables(n - 1) \cup
         {Append(t, create_pending(u, c)) :
              t \in {x \in StoredTables(n - 1) : Len(x) = n - 1}, u \in Users, c \in StoredCosts}

\* ids passed to the handlers: the stored ones and one that matches no row
CalledIds == 1 .. (MaxPredictions + 1)

\* the WorkerResults passed to handle
CalledResults ==
    {[success |-> TRUE, prediction_id |-> p, response |-> "content", error |-> ""] :
         p \in CalledIds}
    \cup {[success |-> FALSE, prediction_id |-> p, response |-> "", error |-> e] :
              p \in CalledIds, e \in ResultErrors}

\* stored predictions and balances; no handler has been called
InitHandler ==
    /\ balance \in [Users -> StoredBalances]
    /\ transactions = <<>>
    /\ predictions \in StoredTables(MaxPredictions)
    /\ deposits = 0
    /\ http = [op |-> "none", code |-> 0, status |-> ""]
    /\ queue = <<>>
    /\ wpc = "idle"
    /\ wtask = NoTask
    /\ wresult = NoResult
    /\ wret = "none"
    /\ exhausted = {}
    /\ consumed = {}
    /\ backend_calls = [p \in DOMAIN predictions |-> 0]
    /\ api = [s \in Sessions |-> IdleSession]
    /\ wseen = [u \in Users |-> NoRecord]
    /\ call = NoCall
    /\ delivery = NoDelivery
    /\ InitInfra(Started)

\* PredictionResultHandler().handle(result, db)
HandleCall(result) ==
    /\ Len(transactions) < MaxHandlerRows
    /\ LET h == handle(result, predictions, balance, transactions, "none")
       IN  /\ predictions' = h.preds
           /\ balance' = h.bal
           /\ transactions' = h.txs
           /\ call' = [op |-> "handle", id |-> result.prediction_id,
                       success |-> result.success, error |-> result.error, ok |-> h.ok]
    /\ UNCHANGED <<infra, deposits, http, queue, worker, api>>

\* PredictionStatusUpdater(db).mark_processing(prediction_id)
MarkProcessingCall(p) ==
    /\ LET m == mark_processing(predictions, p, "none")
       IN  /\ predictions' = m.preds
           /\ call' = [op |-> "mark_processing", id |-> p, success |-> FALSE,
                       error |-> "", ok |-> m.ok]
    /\ UNCHANGED <<infra, ledger, deposits, http, queue, worker, api>>

\* PredictionStatusUpdater(db).mark_failed(prediction_id, error)
MarkFailedCall(p, error) ==
    /\ LET m == mark_failed(predictions, p, <<Error(-1, error)>>, "none")
       IN  /\ predictions' = m.preds
           /\ call' = [op |-> "mark_failed", id |-> p, success |-> FALSE,
                       error |-> error, ok |-> m.ok]
    /\ UNCHANGED <<infra, ledger, deposits, http, queue, worker, api>>

NextHandler ==
    \/ \E r \in CalledResults : HandleCall(r)
    \/ \E p \in CalledIds : MarkProcessingCall(p)
    \/ \E p \in CalledIds, e \in ResultErrors : MarkFailedCall(p, e)

SpecHandler == InitHandler /\ [][NextHandler]_vars

(* ------------- API requests and handle as interleaved sessions ---------- *)
\* requests accepted or about to be: committed rows plus sessions past the check
OpenRequests == Len(predictions) + Cardinality({s \in Sessions : api[s].pc = "send"})
OpenDeposits == deposits + Cardinality({s \in Sessions : api[s].pc = "add"})

\* the balance table as session s sees it: its own earlier read of the user's row
SessionView(s) == [balance EXCEPT ![api[s].user] = api[s].seen]

\* send_message up to has_sufficient_balance: the session loads the user's row
BeginSend(s, u, len, hist) ==
    /\ api[s].pc = "idle"
    /\ OpenRequests < MaxRequests
    /\ IF ~has_sufficient_balance(balance, u, ML_REQUEST_COST)
       THEN /\ http' = [op |-> "send_message", code |-> 402, status |-> ""]
            /\ UNCHANGED api
       ELSE /\ api' = [api EXCEPT ![s] = [pc |-> "send", user |-> u, seen |-> balance[u],
                                          amount |-> ML_REQUEST_COST, message |-> len,
                                          history |-> hist]]
            /\ UNCHANGED http
    /\ UNCHANGED <<infra, ledger, predictions, deposits, queue, worker, call>>

\* send_message committing a decrement of the row as it is in the table at
\* commit time, whatever the session read
CommitSend_decrement(s, slot) ==
    /\ api[s].pc = "send"
    /\ LET u == api[s].user
           p == Len(predictions) + 1
           obtained == get_publisher(slot)
           published == obtained = "publisher" /\ publish(slot)
       IN  /\ predictions' = Append(predictions, create_pending(u, ML_REQUEST_COST))
           /\ balance' = [balance EXCEPT ![u] = get_balance(balance, u) - ML_REQUEST_COST]
           /\ transactions' = Append(transactions,
                  create_ml_request_transaction(u, ML_REQUEST_COST, p))
           /\ queue' = IF published
                       THEN Append(queue, new_task(p, u, api[s].message, api[s].history))
                       ELSE queue
           /\ backend_calls' = Append(backend_calls, 0)
           /\ http' = send_response(obtained, published, predictions'[p].status)
    /\ api' = [api EXCEPT ![s] = IdleSession]
    /\ UNCHANGED <<infra, deposits, delivery, wpc, wtask, wresult, wret, exhausted, consumed,
                   wseen, call>>

\* send_message from create_pending to the response: deduct works on the row
\* the session already holds, db.commit() writes the value computed from it
CommitSend(s, slot) ==
    /\ api[s].pc = "send"
    /\ LET u == api[s].user
           p == Len(predictions) + 1
           d == deduct(SessionView(s), u, ML_REQUEST_COST)
           obtained == get_publisher(slot)
           published == obtained = "publisher" /\ publish(slot)
       IN  /\ predictions' = Append(predictions, create_pending(u, ML_REQUEST_COST))
           /\ balance' = [balance EXCEPT ![u] = d.bal[u]]
           /\ transactions' = Append(transactions,
                  create_ml_request_transaction(u, ML_REQUEST_COST, p))
           /\ queue' = IF published
                       THEN Append(queue, new_task(p, u, api[s].message, api[s].history))
                       ELSE queue
           /\ backend_calls' = Append(backend_calls, 0)
           /\ http' = send_response(obtained, published, predictions'[p].status)
    /\ api' = [api EXCEPT ![s] = IdleSession]
    /\ UNCHANGED <<infra, deposits, delivery, wpc, wtask, wresult, wret, exhausted, consumed, wseen, call>>

\* add_balance up to the query of the balance row
BeginAdd(s, u, amount) ==
    /\ api[s].pc = "idle"
    /\ OpenDeposits < MaxDeposits
    /\ IF amount <= 0 \/ amount > MAX_DEPOSIT
       THEN /\ http' = [op |-> "add_balance", code |-> 400, status |-> ""]
            /\ UNCHANGED api
       ELSE /\ api' = [api EXCEPT ![s] = [pc |-> "add", user |-> u, seen |-> balance[u],
                                          amount |-> amount, message |-> 0,
                                          history |-> <<>>]]
            /\ UNCHANGED http
    /\ UNCHANGED <<infra, ledger, predictions, deposits, queue, worker, call>>

\* add_balance from the update to db.commit(); inserting a row that another
\* session inserted meanwhile violates the primary key and nothing is committed
CommitAdd(s) ==
    /\ api[s].pc = "add"
    /\ LET u == api[s].user
       IN  IF api[s].seen = NoRecord /\ balance[u] # NoRecord
           THEN /\ http' = [op |-> "add_balance", code |-> 500, status |-> ""]
                /\ UNCHANGED <<balance, transactions, deposits>>
           ELSE /\ balance' = [balance EXCEPT
                                  ![u] = get_balance(SessionView(s), u) + api[s].amount]
                /\ transactions' = Append(transactions,
                       [user_id |-> u, type |-> DEPOSIT, amount |-> api[s].amount,
                        ref |-> 0])
                /\ deposits' = deposits + 1
                /\ http' = [op |-> "add_balance", code |-> 200, status |-> ""]
    /\ api' = [api EXCEPT ![s] = IdleSession]
    /\ UNCHANGED <<infra, predictions, queue, worker, call>>

\* handle up to the query in BalanceService.refund: the worker's session reads
HandleRead ==
    /\ wpc = "handle"
    /\ wseen' = balance
    /\ wpc' = "handle_commit"
    /\ UNCHANGED <<infra, ledger, predictions, deposits, http, delivery, queue, wtask, wresult, wret,
                   exhausted, consumed, backend_calls, sessions>>

\* handle from the update to db.commit(): the row is written with the value
\* computed from what the session read
HandleCommit(F) ==
    /\ wpc = "handle_commit"
    /\ \E fault \in F :
       LET h == handle(wresult, predictions, wseen, transactions, fault)
       IN  /\ predictions' = h.preds
           /\ balance' = [u \in Users |-> IF h.bal[u] # wseen[u] THEN h.bal[u]
                                          ELSE balance[u]]
           /\ transactions' = h.txs
           /\ wret' = IF h.ok THEN "true" ELSE "false"
    /\ counts' = count_result(counts, wresult.success)
    /\ wpc' = "consume"
    /\ wseen' = [u \in Users |-> NoRecord]
    /\ UNCHANGED <<redelivered, mq, getting, runner, deliveries, deposits, http, delivery,
                   queue, wtask, wresult, exhausted, consumed, backend_calls, sessions>>

NextConc ==
    \/ \E s \in Sessions, u \in ConcUsers, len \in MessageLengths :
          BeginSend(s, u, len, <<>>)
    \/ \E s \in Sessions, slot \in PublisherSlots : CommitSend(s, slot)
    \/ \E s \in Sessions, u \in ConcUsers, a \in DepositAmounts : BeginAdd(s, u, a)
    \/ \E s \in Sessions : CommitAdd(s)
    \/ Receive
    \/ Validate(NoFaults)
    \/ MarkProcessing(NoFaults)
    \/ Chat
    \/ HandleRead
    \/ HandleCommit(NoFaults)
    \/ Consume
    \/ Ack

SpecConc == Init /\ [][NextConc]_vars

(* ------------------------- broker redelivery --------------------------- *)
\* the acknowledgement of a fully processed delivery does not reach the broker
\* (at-least-once delivery): the same message is queued again. The store as
\* this delivery left it is remembered.
AckLost ==
    /\ wpc = "ack"
    /\ wtask # NoTask
    /\ queue = <<>>
    /\ ~redelivered.taken
    /\ delivery' = process_exit(delivery, FALSE)
    /\ wpc' = "idle"
    /\ wtask' = NoTask
    /\ queue' = <<wtask>>
    /\ redelivered' = [taken |-> TRUE, predictions |-> predictions, balance |-> balance,
                       transactions |-> transactions, deposits |-> deposits]
    /\ UNCHANGED <<ledger, predictions, deposits, http, wresult, wret, exhausted, consumed,
                 backend_calls, wseen, sessions, mq, getting, runner, counts, deliveries>>

NextRedelivery ==
    \/ Next
    \/ AckLost

SpecRedelivery == Init /\ [][NextRedelivery]_vars

(* ----------------------- MLTaskMessage as a value ---------------------- *)
TaskPriority == [LOW |-> 1, NORMAL |-> 5, HIGH |-> 10]
NULL == "null"

\* str.strip() on a text kept as its body and whether blanks surround it
strip(text) == [text EXCEPT !.padded = FALSE]

\* what the caller passes to MLTaskMessage(...)
RawMessages ==
    [task_id : {"t1", "t2"}, prediction_id : {1}, user_id : Users,
     message : [body : {"hi"}, padded : BOOLEAN],
     conversation_history : {NULL, <<>>, <<GoodItem, ListRoleItem>>, <<ListRoleItem, GoodItem>>},
     model_id : {"m1"}, priority : DOMAIN TaskPriority, created_at : {0, 1},
     retry_count : 0 .. DEFAULT_MAX_RETRIES, max_retries : {DEFAULT_MAX_RETRIES}]

\* the field validators message_not_empty and validate_history
validated(r) ==
    [r EXCEPT !.message = strip(r.message),
              !.conversation_history = IF r.conversation_history = NULL THEN <<>>
                                       ELSE r.conversation_history]

\* the valid messages
Messages == {validated(r) : r \in RawMessages}

\* datetime <-> ISO 8601 text
isoformat(t) == <<"iso", t>>
fromisoformat(text) == text[2]

\* the member of TaskPriority with value n
priority_of(n) == CHOOSE name \in DOMAIN TaskPriority : TaskPriority[name] = n

\* model_dump_json: the enum goes out as its integer, the datetime as text
to_json(m) ==
    [m EXCEPT !.priority = TaskPriority[m.priority],
              !.created_at = isoformat(m.created_at)]

from_json_default_priority(j) ==
    validated([j EXCEPT !.priority = "NORMAL",
                        !.created_at = fromisoformat(j.created_at)])

\* model_validate_json: the fields are parsed back and validated again
from_json(j) ==
    validated([j EXCEPT !.priority = priority_of(j.priority),
                        !.created_at = fromisoformat(j.created_at)])

NoWire == <<>>

\* one valid message has been constructed; objects holds the MLTaskMessage
\* objects by identity, the first being that message
InitMessage ==
    /\ balance = [u \in Users |-> NoRecord]
    /\ transactions = <<>>
    /\ predictions = <<>>
    /\ deposits = 0
    /\ http = [op |-> "none", code |-> 0, status |-> ""]
    /\ queue = <<>>
    /\ wpc = "idle"
    /\ wtask = NoTask
    /\ wresult = NoResult
    /\ wret = "none"
    /\ exhausted = {}
    /\ consumed = {}
    /\ backend_calls = <<>>
    /\ api = [s \in Sessions |-> IdleSession]
    /\ wseen = [u \in Users |-> NoRecord]
    /\ \E m \in Messages :
          call = [op |-> "none", objects |-> <<m>>, wire |-> NoWire, result |-> 0]
    /\ delivery = NoDelivery
    /\ InitInfra(NoConnection)

\* m.increment_retry(): model_copy builds a new object
IncrementRetryCall ==
    /\ call.op = "none"
    /\ call' = [call EXCEPT !.op = "increment_retry",
                            !.objects = Append(call.objects, increment_retry(call.objects[1])),
                            !.result = Len(call.objects) + 1]
    /\ UNCHANGED <<infra, ledger, predictions, deposits, http, queue, worker, api>>

\* m.to_json()
ToJsonCall ==
    /\ call.op = "none"
    /\ call' = [call EXCEPT !.op = "to_json", !.wire = to_json(call.objects[1])]
    /\ UNCHANGED <<infra, ledger, predictions, deposits, http, queue, worker, api>>

\* MLTaskMessage.from_json(text) on the text to_json produced
FromJsonCall ==
    /\ call.op = "to_json"
    /\ call' = [call EXCEPT !.op = "from_json",
                            !.objects = Append(call.objects, from_json(call.wire)),
                            !.result = Len(call.objects) + 1]
    /\ UNCHANGED <<infra, ledger, predictions, deposits, http, queue, worker, api>>

NextMessage ==
    \/ IncrementRetryCall
    \/ ToJsonCall
    \/ FromJsonCall

SpecMessage == InitMessage /\ [][NextMessage]_vars

(* ------------------ callers of the RabbitMQConnection ------------------ *)
\* a process that has not used its RabbitMQConnection yet
InitConnection ==
    /\ balance = [u \in Users |-> NoRecord]
    /\ InitRest
    /\ InitInfra(NoConnection)

\* no get_channel call is suspended at an await
NoCallSuspended == \A c \in Callers : getting[c].pc \in {"idle", "done"}

\* get_channel after connect() returned conn on the singleton m: either the
\* held channel is returned at once or connection.channel() is awaited
channel_check(c, m, conn) ==
    /\ mq' = m
    /\ getting' = [getting EXCEPT ![c] =
                      IF needs_channel(m)
                      THEN [pc |-> "opening", connection |-> conn, channel |-> 0]
                      ELSE [pc |-> "done", connection |-> conn, channel |-> m.channel]]

\* caller c enters get_channel and runs to its first await or to its return
GetChannelBegin(c) ==
    /\ getting[c].pc = "idle"
    /\ IF needs_connect(mq)
       THEN /\ getting' = [getting EXCEPT ![c] =
                              [pc |-> "connecting", connection |-> 0, channel |-> 0]]
            /\ UNCHANGED mq
       ELSE channel_check(c, mq, mq.connection)
    /\ UNCHANGED <<ledger, predictions, deposits, http, queue, worker, sessions, redelivered,
                 runner, counts, deliveries>>

\* connect_robust returns to c: self._connection is assigned and returned
GetChannelConnected(c) ==
    /\ getting[c].pc = "connecting"
    /\ Len(mq.connections) < MaxOpens
    /\ LET m == connect_robust(mq) IN channel_check(c, m, m.connection)
    /\ UNCHANGED <<ledger, predictions, deposits, http, queue, worker, sessions, redelivered,
                 runner, counts, deliveries>>

\* connection.channel() returns to c: self._channel is assigned and set_qos is
\* sent on it; the broker applies it before anything sent on the channel later
GetChannelOpened(c) ==
    /\ getting[c].pc = "opening"
    /\ Len(mq.channels) < MaxOpens
    /\ mq' = set_qos(open_channel(mq, getting[c].connection), Len(mq.channels) + 1,
                     PREFETCH_COUNT)
    /\ getting' = [getting EXCEPT ![c].pc = "qos"]
    /\ UNCHANGED <<ledger, predictions, deposits, http, queue, worker, sessions, redelivered,
                 runner, counts, deliveries>>

\* set_qos returns to c, which returns self._channel as it is now
GetChannelReturn(c) ==
    /\ getting[c].pc = "qos"
    /\ getting' = [getting EXCEPT ![c].pc = "done", ![c].channel = mq.channel]
    /\ UNCHANGED <<ledger, predictions, deposits, http, queue, worker, sessions, redelivered,
                 mq, runner, counts, deliveries>>

\* the caller is through with the channel it was given
GetChannelUsed(c) ==
    /\ getting[c].pc = "done"
    /\ getting' = [getting EXCEPT ![c] = IdleCaller]
    /\ UNCHANGED <<ledger, predictions, deposits, http, queue, worker, sessions, redelivered,
                 mq, runner, counts, deliveries>>

\* RabbitMQConnection.close(), between get_channel calls
CloseCall ==
    /\ NoCallSuspended
    /\ mq' = close(mq)
    /\ UNCHANGED <<ledger, predictions, deposits, http, queue, worker, sessions, redelivered,
                 getting, runner, counts, deliveries>>

\* the broker or the network closes a connection, between get_channel calls
ConnectionLost ==
    /\ NoCallSuspended
    /\ \E k \in DOMAIN mq.connections :
          /\ mq.connections[k]
          /\ mq' = close_connection(mq, k)
    /\ UNCHANGED <<ledger, predictions, deposits, http, queue, worker, sessions, redelivered,
                 getting, runner, counts, deliveries>>

\* the broker closes a channel, between get_channel calls
ChannelLost ==
    /\ NoCallSuspended
    /\ \E ch \in DOMAIN mq.channels :
          /\ mq.channels[ch].open
          /\ mq' = [mq EXCEPT !.channels[ch].open = FALSE]
    /\ UNCHANGED <<ledger, predictions, deposits, http, queue, worker, sessions, redelivered,
                 getting, runner, counts, deliveries>>

NextConnection ==
    \/ \E c \in Callers : GetChannelBegin(c)
    \/ \E c \in Callers : GetChannelConnected(c)
    \/ \E c \in Callers : GetChannelOpened(c)
    \/ \E c \in Callers : GetChannelReturn(c)
    \/ \E c \in Callers : GetChannelUsed(c)
    \/ CloseCall
    \/ ConnectionLost
    \/ ChannelLost

SpecConnection == InitConnection /\ [][NextConnection]_vars

(* ------------------------------ shutdown ------------------------------- *)
\* SIGTERM or SIGINT: _shutdown sets the shutdown event and the consumer's
\* _consuming flag; the consumer registered on the queue is left in place
ShutdownSignal ==
    /\ runner.state = "running"
    /\ runner' = [runner EXCEPT !.state = "stopping"]
    /\ UNCHANGED <<ledger, predictions, deposits, http, queue, worker, sessions, redelivered,
                 mq, getting, counts, deliveries>>

\* run() returns once the event is set and asyncio.run ends the process,
\* cancelling a process_message still running: the cancellation is not an
\* Exception, so it leaves the message.process block, which rejects the
\* message if the broker can still be told. Nothing closes the connection.
Exit ==
    /\ runner.state = "stopping"
    /\ runner' = [state |-> "exited", in_flight |-> wpc # "idle"]
    /\ wpc' = "exited"
    /\ IF wpc # "idle"
       THEN delivery' \in {process_exit(delivery, TRUE), delivery}
       ELSE delivery' = delivery
    /\ UNCHANGED <<ledger, predictions, deposits, http, queue, wtask, wresult, wret, exhausted,
                 consumed, backend_calls, wseen, sessions, redelivered, mq, getting, counts, deliveries>>

NextShutdown ==
    \/ Next
    \/ ShutdownSignal
    \/ Exit

SpecShutdown == Init /\ [][NextShutdown]_vars

(* ---------------- deposits of less than a hundredth -------------------- *)
\* the scale of the NUMERIC(10, 2) columns user_balances.balance and
\* transactions.amount
NUMERIC_SCALE == 2

RECURSIVE Pow10(_)
Pow10(n) == IF n = 0 THEN 1 ELSE 10 * Pow10(n - 1)

\* In SpecDeposit money is counted in tenths of the smallest step the columns
\* can hold: one credit is CreditUnits, one column step is ColumnStep.
CreditUnits == Pow10(NUMERIC_SCALE + 1)
ColumnStep == Pow10(1)

\* what a NUMERIC(10, 2) column keeps of a non-negative value: the value
\* rounded to the column's scale, halves upwards
numeric(x) == ((x + ColumnStep \div 2) \div ColumnStep) * ColumnStep

\* amounts a BalanceAdd request can carry (amount is an unconstrained Decimal)
FineAmounts ==
    {0, 4, 5, ColumnStep, ColumnStep + 4, CreditUnits, MAX_DEPOSIT * CreditUnits,
     MAX_DEPOSIT * CreditUnits + 1}

\* POST /balance/add with such an amount; the commit stores balance and
\* Deposit row in their columns
AddBalanceFine(u, amount) ==
    /\ deposits <= MaxDeposits
    /\ IF amount <= 0 \/ amount > MAX_DEPOSIT * CreditUnits
       THEN /\ http' = [op |-> "add_balance", code |-> 400, status |-> ""]
            /\ UNCHANGED <<balance, transactions, deposits>>
       ELSE /\ balance' = [balance EXCEPT ![u] = numeric(get_balance(balance, u) + amount)]
            /\ transactions' = Append(transactions,
                   [user_id |-> u, type |-> DEPOSIT, amount |-> numeric(amount), ref |-> 0])
            /\ deposits' = deposits + 1
            /\ http' = [op |-> "add_balance", code |-> 200, status |-> ""]
    /\ UNCHANGED <<infra, predictions, queue, worker, sessions>>

NextDeposit == \E u \in Users, a \in FineAmounts : AddBalanceFine(u, a)

SpecDeposit == Init /\ [][NextDeposit]_vars

(* -------------------- direct calls of the validators ------------------- *)
NotDictItem == [isDict |-> FALSE, hasRole |-> FALSE, role |-> "", hasContent |-> FALSE]
BadRoleItem == [isDict |-> TRUE, hasRole |-> TRUE, role |-> "admin", hasContent |-> TRUE]
NoContentItem == [isDict |-> TRUE, hasRole |-> TRUE, role |-> "system", hasContent |-> FALSE]
HistoryItems == {GoodItem, NoRoleItem, ListRoleItem, NotDictItem, BadRoleItem, NoContentItem}

\* lists of up to two entries, and of exactly and one more than
\* MAX_HISTORY_LENGTH entries
HistoryLists ==
    {<<>>}
        \cup {<<a>> : a \in HistoryItems}
        \cup {<<a, b>> : a \in HistoryItems, b \in HistoryItems}
        \cup {[i \in 1 .. MAX_HISTORY_LENGTH |-> GoodItem],
              [i \in 1 .. MAX_HISTORY_LENGTH + 1 |-> GoodItem]}

\* data["conversation_history"] values by Python type: None, a list, or
\* something else (a string, a dict)
ValidatorHistories ==
    {[type |-> "None", items |-> <<>>], [type |-> "other", items |-> <<>>]}
        \cup {[type |-> "list", items |-> s] : s \in HistoryLists}

\* data["message"] by trimmed length
ValidatorLengths == {0, MIN_LENGTH, MAX_LENGTH, MAX_LENGTH + 1}

\* HistoryValidator.validate on any value: the errors it reports, or TypeError
\* when it raises
history_validate(h) ==
    IF h.type = "None" THEN [raised |-> FALSE, errors |-> <<>>]
    ELSE IF h.type # "list"
    THEN [raised |-> FALSE, errors |-> <<Error(-1, "Conversation history must be a list")>>]
    ELSE IF HistoryRaises(h.items) THEN [raised |-> TRUE, errors |-> <<>>]
    ELSE [raised |-> FALSE, errors |-> HistoryValidator(h.items)]

\* CompositeValidator.validate on any data: the merged result, or TypeError
composite_validate(len, h) ==
    IF history_validate(h).raised THEN [raised |-> TRUE, is_valid |-> FALSE, errors |-> <<>>]
    ELSE IF h.type # "list"
    THEN [raised |-> FALSE,
          is_valid |-> MessageValidator(len) = <<>> /\ history_validate(h).errors = <<>>,
          errors |-> MessageValidator(len) \o history_validate(h).errors]
    ELSE LET r == CompositeValidator([message |-> len, conversation_history |-> h.items])
         IN  [raised |-> FALSE, is_valid |-> r.is_valid, errors |-> r.errors]

\* some data is about to be validated
InitValidator ==
    /\ balance = [u \in Users |-> NoRecord]
    /\ transactions = <<>>
    /\ predictions = <<>>
    /\ deposits = 0
    /\ http = [op |-> "none", code |-> 0, status |-> ""]
    /\ queue = <<>>
    /\ wpc = "idle"
    /\ wtask = NoTask
    /\ wresult = NoResult
    /\ wret = "none"
    /\ exhausted = {}
    /\ consumed = {}
    /\ backend_calls = <<>>
    /\ api = [s \in Sessions |-> IdleSession]
    /\ wseen = [u \in Users |-> NoRecord]
    /\ \E len \in ValidatorLengths, h \in ValidatorHistories :
          call = [op |-> "none", message |-> len, conversation_history |-> h,
                  history |-> [raised |-> FALSE, errors |-> <<>>],
                  composite |-> [raised |-> FALSE, is_valid |-> FALSE, errors |-> <<>>]]
    /\ delivery = NoDelivery
    /\ InitInfra(NoConnection)

\* HistoryValidator().validate(data) and CompositeValidator([...]).validate(data)
ValidateCall ==
    /\ call.op = "none"
    /\ call' = [call EXCEPT !.op = "validate",
                            !.history = history_validate(call.conversation_history),
                            !.composite = composite_validate(call.message,
                                                             call.conversation_history)]
    /\ UNCHANGED <<infra, ledger, predictions, deposits, http, queue, worker, api>>

NextValidator == ValidateCall

SpecValidator == InitValidator /\ [][NextValidator]_vars

(* --------------------------- queue declarations ------------------------- *)
\* the arguments of a declare_queue call; raised marks a call that was never
\* made because building its arguments raised
NoDeclaration ==
    [raised |-> TRUE, name |-> "", durable |-> FALSE, ttl |-> 0, max_length |-> 0]

\* BaseConsumer.start, on the TaskConsumer built with QUEUE_NAME = "ml_tasks"
ConsumerDeclaration ==
    [raised |-> FALSE, name |-> "ml_tasks", durable |-> TRUE,
     ttl |-> 3600000, max_length |-> 10000]

\* the declaration that reads its name, x-message-ttl and x-max-length from
\* three settings fields: an undeclared field raises AttributeError
declare_from_settings(name, ttl, max_length) ==
    IF {name, ttl, max_length} \subseteq SettingsFields
    THEN [raised |-> FALSE, name |-> name, durable |-> TRUE, ttl |-> 0, max_length |-> 0]
    ELSE NoDeclaration

\* TaskPublisher.__init__ and _declare_queue
PublisherDeclaration ==
    declare_from_settings("QUEUE_NAME", "QUEUE_MESSAGE_TTL", "QUEUE_MAX_LENGTH")

\* routing_key of TaskPublisher.publish: the publisher's own queue name
PublisherRoutingKey == PublisherDeclaration.name

(* ------------- the balance under interleaved sessions ------------------- *)
RECURSIVE SumOver(_, _)
\* the sum of f over the ids in S
SumOver(f, S) ==
    IF S = {} THEN 0
    ELSE LET p == CHOOSE q \in S : TRUE IN f[p] + SumOver(f, S \ {p})

\* a delivery to the worker while fewer than MaxDeliveries were taken
ReceiveBounded ==
    /\ SumOver(deliveries, PredictionIds) < MaxDeliveries
    /\ Receive

\* the sessions of send_message and add_balance and the worker's handle, all
\* on the row of one user
NextBalance ==
    \/ \E s \in Sessions, u \in ConcUsers, len \in MessageLengths :
          BeginSend(s, u, len, <<>>)
    \/ \E s \in Sessions, slot \in PublisherSlots : CommitSend(s, slot)
    \/ \E s \in Sessions, u \in ConcUsers, a \in DepositAmounts : BeginAdd(s, u, a)
    \/ \E s \in Sessions : CommitAdd(s)
    \/ ReceiveBounded
    \/ Validate(NoFaults)
    \/ MarkProcessing(NoFaults)
    \/ Chat
    \/ HandleRead
    \/ HandleCommit(NoFaults)
    \/ Consume
    \/ Ack

SpecBalance == Init /\ [][NextBalance]_vars

TypeOK ==
    /\ balance \in [Users -> Int]
    /\ \A p \in DOMAIN predictions : predictions[p].status \in PredictionStatus
    /\ wpc \in {"idle", "validate", "process", "chat", "handle", "handle_commit", "consume",
              "ack", "overlap", "exited"}

(* ======================= properties of the pipeline ==================== *)
\* messages of prediction p still queued or being processed
Pending(p) ==
    \/ \E i \in DOMAIN queue : queue[i].prediction_id = p
    \/ wpc # "idle" /\ wtask.prediction_id = p

\* the rows appended to the transactions table by the current step
NewRows == SubSeq(transactions', Len(transactions) + 1, Len(transactions'))

\* C1: exactly-once accounting. Every charged prediction whose task has been
\* consumed and has no message left is either Completed with one ML_Request
\* debit and no Refund, or Failed with one debit and exactly one Refund.
C1_ExactlyOnceAccounting ==
    \A p \in DOMAIN predictions :
        (predictions[p].cost_charged > 0 /\ p \in consumed /\ ~Pending(p)) =>
            \/ /\ predictions[p].status = COMPLETED
               /\ CountFor(transactions, p, ML_REQUEST) = 1
               /\ CountFor(transactions, p, REFUND) = 0
            \/ /\ predictions[p].status = FAILED
               /\ CountFor(transactions, p, ML_REQUEST) = 1
               /\ CountFor(transactions, p, REFUND) = 1

\* C2: at most one Refund row is ever appended for a charged prediction.
C2_AtMostOneRefund ==
    \A p \in DOMAIN predictions :
        predictions[p].cost_charged > 0 => CountFor(transactions, p, REFUND) <= 1

\* C3: the status is one-way. A Completed or Failed prediction keeps its status
\* in every later step, and no step sets a status back to Pending.
C3_TerminalIsFinal ==
    [][\A p \in DOMAIN predictions :
          /\ predictions[p].status \in {COMPLETED, FAILED}
                => predictions'[p].status = predictions[p].status
          /\ predictions[p].status # PENDING => predictions'[p].status # PENDING]_vars

\* C4 (state part): every queued or in-flight message has
\* 0 <= retry_count <= max_retries, and no message exists for a prediction whose
\* task failed with retry_count = max_retries, but that task's own delivery
\* until it is acknowledged.
C4_Inv ==
    /\ \A i \in DOMAIN queue :
          /\ 0 <= queue[i].retry_count
          /\ queue[i].retry_count <= queue[i].max_retries
          /\ queue[i].prediction_id \notin exhausted
    /\ wpc \notin {"idle", "ack"} => wtask.prediction_id \notin exhausted

\* C4 (step part): a retry copy is enqueued only by the consumer, only after a
\* failed result with retry_count < max_retries, and it is the processed
\* message with retry_count one greater.
C4_Step ==
    (Len(queue') > Len(queue) /\ queue'[Len(queue')].retry_count > 0) =>
        /\ wpc = "consume"
        /\ ~wresult.success
        /\ wtask.retry_count < wtask.max_retries
        /\ queue' = Append(queue, [wtask EXCEPT !.retry_count = wtask.retry_count + 1])

\* C4: retry bound.
C4_RetryBound == []C4_Inv /\ [][C4_Step]_vars

\* C4 witness: a task failed with retry_count = max_retries and nothing is queued.
C4_Witness == exhausted # {} /\ queue = <<>> /\ wpc = "idle"

\* C5: a task that fails validation is never republished, so no retry copy
\* (retry_count > 0) of an invalid task is ever in the queue.
C5_InvalidNeverRepublished ==
    \A i \in DOMAIN queue :
        queue[i].retry_count > 0 => CompositeValidator(queue[i]).is_valid

\* C6 (state part): a task that fails validation never reaches mark_processing,
\* the backend call or the result handler.
C6_Inv == wpc \in {"process", "chat", "handle"} => CompositeValidator(wtask).is_valid

\* C6 (step part): the execute step of an invalid task ends the execution with a
\* failed WorkerResult, the prediction Failed with the validation errors, and
\* balance, transactions and backend calls untouched.
C6_Step ==
    (wpc = "validate" /\ wpc' # "validate" /\ ~CompositeValidator(wtask).is_valid) =>
        /\ wpc' = "consume"
        /\ ~wresult'.success
        /\ predictions'[wtask.prediction_id].status = FAILED
        /\ predictions'[wtask.prediction_id].error_message =
               <<Error(-1, "Validation error")>> \o CompositeValidator(wtask).errors
        /\ UNCHANGED <<balance, transactions, backend_calls>>

C7_Inv ==
    \A u \in Users : get_balance(balance, u) = SumAmounts(SelectTx(transactions, u, "any"))

\* C7 (step part): the table only grows, by at most one row per commit; a
\* balance changes exactly when a row of that user is appended, by the row's
\* signed amount.
C7_Step ==
    /\ Len(transactions') >= Len(transactions)
    /\ SubSeq(transactions', 1, Len(transactions)) = transactions
    /\ Len(NewRows) <= 1
    /\ \A u \in Users :
          /\ get_balance(balance', u) - get_balance(balance, u)
                = SumAmounts(SelectTx(NewRows, u, "any"))
          /\ (SelectTx(NewRows, u, "any") # <<>>) <=> (balance'[u] # balance[u])

\* C7: ledger/balance consistency over add_balance, send_message and handle.
C7_LedgerConsistency == []C7_Inv /\ [][C7_Step]_vars

\* C7 witness: a deposit, a debit and a refund have all been committed for a user.
C7_Witness ==
    \E u \in Users :
        /\ SelectTx(transactions, u, DEPOSIT) # <<>>
        /\ SelectTx(transactions, u, ML_REQUEST) # <<>>
        /\ SelectTx(transactions, u, REFUND) # <<>>

\* C8: deduct never takes the balance below zero. With no row or with
\* balance < amount it returns false and changes nothing; otherwise it returns
\* true and the user's balance drops by exactly amount.
C8_Deduct ==
    call.op = "deduct" =>
        LET u == call.user
            b == call.before
        IN  /\ \A v \in Users \ {u} : balance[v] = b[v]
            /\ IF b[u] = NoRecord \/ b[u] < call.amount
               THEN ~call.ok /\ balance[u] = b[u]
               ELSE call.ok /\ balance[u] = b[u] - call.amount /\ balance[u] >= 0

\* C8 witness: deduct was refused for an existing row with balance < amount.
C8_Witness ==
    /\ call.op = "deduct"
    /\ ~call.ok
    /\ call.before[call.user] # NoRecord
    /\ call.before[call.user] < call.amount

\* total of the user's rows of one type
Total(u, t) == SumAmounts(SelectTx(transactions, u, t))

\* C9: no lost update under interleaved sessions. The committed balance is the
\* deposits minus the cost of every accepted request plus every refund, and the
\* accepted requests never cost more than what was deposited and refunded.
C9_NoLostUpdate ==
    \A u \in Users :
        LET accepted == Len(SelectTx(transactions, u, ML_REQUEST))
            refunds == Len(SelectTx(transactions, u, REFUND))
        IN  /\ get_balance(balance, u) = Total(u, DEPOSIT)
                   - accepted * ML_REQUEST_COST + refunds * ML_REQUEST_COST
            /\ accepted * ML_REQUEST_COST <= Total(u, DEPOSIT) + refunds * ML_REQUEST_COST

\* C10: reconciliation is atomic. A handle call for a failure result of a
\* charged prediction either returns true with status Failed, the balance
\* credited and one Refund row appended, or returns false with nothing committed.
C10_AtomicReconciliation ==
    [][(/\ wpc = "handle"
        /\ wpc' = "consume"
        /\ ~wresult.success
        /\ wresult.prediction_id \in DOMAIN predictions
        /\ predictions[wresult.prediction_id].cost_charged > 0) =>
          LET p == wresult.prediction_id
              u == predictions[p].user_id
              c == predictions[p].cost_charged
          IN  \/ /\ wret' = "true"
                 /\ predictions'[p].status = FAILED
                 /\ balance'[u] = balance[u] + c
                 /\ transactions' = Append(transactions, create_refund_transaction(u, c, p))
              \/ /\ wret' = "false"
                 /\ UNCHANGED <<predictions, balance, transactions>>]_vars

\* C11: refund on failure. A handle call with a failure result for a stored
\* prediction with cost_charged > 0 whose user has a balance row returns true,
\* sets status Failed and error_message to the result's error, raises that
\* user's balance by exactly cost_charged, leaves the other balances alone and
\* appends exactly one Refund row of +cost_charged for that user.
C11_RefundOnFailure ==
    [][(/\ wpc = "handle"
        /\ wpc' = "consume"
        /\ ~wresult.success
        /\ wresult.prediction_id \in DOMAIN predictions
        /\ predictions[wresult.prediction_id].cost_charged > 0
        /\ balance[predictions[wresult.prediction_id].user_id] # NoRecord) =>
          LET p == wresult.prediction_id
              u == predictions[p].user_id
              c == predictions[p].cost_charged
          IN  /\ wret' = "true"
              /\ predictions'[p].status = FAILED
              /\ predictions'[p].error_message = <<Error(-1, wresult.error)>>
              /\ balance' = [balance EXCEPT ![u] = balance[u] + c]
              /\ SubSeq(transactions', 1, Len(transactions)) = transactions
              /\ NewRows = <<[user_id |-> u, type |-> REFUND, amount |-> c, ref |-> p]>>]_vars

\* C11 witness: the backend failed, handle returned true and the prediction is
\* Failed with the backend's error and one Refund row.
C11_Witness ==
    /\ wpc = "consume"
    /\ wret = "true"
    /\ wresult.error = "Service unavailable"
    /\ predictions[wresult.prediction_id].status = FAILED
    /\ predictions[wresult.prediction_id].error_message = <<Error(-1, "Service unavailable")>>
    /\ CountFor(transactions, wresult.prediction_id, REFUND) = 1

\* C12: success has no ledger effect. A handle call with a success result for a
\* stored prediction returns true, sets status Completed, stores the response
\* in result, clears error_message and leaves balances and transactions as
\* they were.
C12_SuccessKeepsLedger ==
    [][(/\ wpc = "handle"
        /\ wpc' = "consume"
        /\ wresult.success
        /\ wresult.prediction_id \in DOMAIN predictions) =>
          LET p == wresult.prediction_id
          IN  /\ wret' = "true"
              /\ predictions'[p].status = COMPLETED
              /\ predictions'[p].result = <<"response", wresult.response>>
              /\ predictions'[p].error_message = <<>>
              /\ UNCHANGED <<balance, transactions>>]_vars

\* C12 witness: a retry succeeded for a prediction that carried the error of an
\* earlier failed attempt; it is Completed and the error is gone.
C12_Witness ==
    /\ wpc = "consume"
    /\ wresult.success
    /\ wret = "true"
    /\ wtask.retry_count > 0
    /\ CountFor(transactions, wresult.prediction_id, REFUND) > 0
    /\ predictions[wresult.prediction_id].status = COMPLETED
    /\ predictions[wresult.prediction_id].error_message = <<>>

\* the handler operations that take a prediction id
HandlerOps == {"handle", "mark_processing", "mark_failed"}

\* C13: unknown prediction. handle, mark_processing and mark_failed called with
\* an id that matches no stored prediction return false and leave predictions,
\* balances and transactions as they were.
C13_UnknownPrediction ==
    [][(call'.op \in HandlerOps /\ call'.id \notin DOMAIN predictions) =>
          /\ ~call'.ok
          /\ UNCHANGED <<predictions, balance, transactions>>]_vars

\* C13 witness: handle was called with a failure result for an id beyond the
\* stored predictions, while a charged prediction and its user's row exist.
C13_Witness ==
    /\ call.op = "handle"
    /\ ~call.success
    /\ call.id \notin DOMAIN predictions
    /\ ~call.ok
    /\ \E p \in DOMAIN predictions :
          predictions[p].cost_charged > 0 /\ balance[predictions[p].user_id] # NoRecord

\* C14: nothing to refund. A handle call with a failure result for a stored
\* prediction with cost_charged <= 0 returns true and sets status Failed, adds
\* no transaction and leaves every balance as it was.
C14_ZeroCostNoRefund ==
    [][(/\ call'.op = "handle"
        /\ ~call'.success
        /\ call'.id \in DOMAIN predictions
        /\ predictions[call'.id].cost_charged <= 0) =>
          /\ call'.ok
          /\ predictions'[call'.id].status = FAILED
          /\ UNCHANGED <<balance, transactions>>]_vars

\* C14 witness: a zero-cost prediction of a user with a balance row was failed
\* by handle.
C14_Witness ==
    /\ call.op = "handle"
    /\ ~call.success
    /\ call.ok
    /\ call.id \in DOMAIN predictions
    /\ predictions[call.id].cost_charged = 0
    /\ predictions[call.id].status = FAILED
    /\ balance[predictions[call.id].user_id] # NoRecord

\* C15 (state part): a first-attempt task is in the queue or in the worker only
\* when its prediction and its ML_Request row are committed.
C15_Inv ==
    /\ \A i \in DOMAIN queue :
          /\ queue[i].prediction_id \in DOMAIN predictions
          /\ CountFor(transactions, queue[i].prediction_id, ML_REQUEST) = 1
    /\ wpc # "idle" => wtask.prediction_id \in DOMAIN predictions

\* C15 (step part): a send_message request of a user whose balance covers the
\* cost appends one Pending prediction with cost_charged = cost, lowers that
\* balance by exactly cost, appends exactly one ML_Request row of -cost, and
\* publishes nothing but the task of that prediction with retry_count 0.
C15_Step ==
    \A u \in Users, len \in MessageLengths, h \in Histories, slot \in PublisherSlots :
        (send_message(u, len, h, slot)
             /\ balance[u] # NoRecord /\ balance[u] >= ML_REQUEST_COST) =>
            LET p == Len(predictions) + 1
            IN  /\ predictions' = Append(predictions,
                       [user_id |-> u, status |-> PENDING,
                        cost_charged |-> ML_REQUEST_COST,
                        error_message |-> <<>>, result |-> <<>>])
                /\ balance' = [balance EXCEPT ![u] = balance[u] - ML_REQUEST_COST]
                /\ transactions' = Append(transactions,
                       [user_id |-> u, type |-> ML_REQUEST,
                        amount |-> -ML_REQUEST_COST, ref |-> p])
                /\ \/ queue' = queue
                   \/ queue' = Append(queue,
                          [prediction_id |-> p, user_id |-> u, message |-> len,
                           conversation_history |-> h, retry_count |-> 0,
                           max_retries |-> DEFAULT_MAX_RETRIES])

\* C15: an accepted request is charged and recorded in one commit and its task
\* is published after it.
C15_AcceptedRequest == []C15_Inv /\ [][C15_Step]_vars

\* C15 witness: a request was accepted and its first-attempt task is queued.
C15_Witness ==
    /\ http = [op |-> "send_message", code |-> 200, status |-> PENDING]
    /\ Len(queue) = 1
    /\ queue[1].retry_count = 0
    /\ predictions[queue[1].prediction_id].status = PENDING
    /\ balance[queue[1].user_id] = 0
    /\ SelectTx(transactions, queue[1].user_id, ML_REQUEST) # <<>>

\* C16: an uncovered request is rejected. A send_message request of a user with
\* no balance row or a balance below the cost is answered 402 and leaves
\* predictions, transactions, balances and the queue as they were.
C16_InsufficientBalance ==
    [][\A u \in Users, len \in MessageLengths, h \in Histories, slot \in PublisherSlots :
          (send_message(u, len, h, slot)
               /\ (balance[u] = NoRecord \/ balance[u] < ML_REQUEST_COST)) =>
              /\ http' = [op |-> "send_message", code |-> 402, status |-> ""]
              /\ UNCHANGED <<predictions, transactions, balance, queue>>]_vars

\* C16 witness: a request was answered 402 while no user could pay, one of them
\* holding a balance row.
C16_Witness ==
    /\ http = [op |-> "send_message", code |-> 402, status |-> ""]
    /\ \A u \in Users : get_balance(balance, u) < ML_REQUEST_COST
    /\ \E u \in Users : balance[u] # NoRecord

\* C17: the publisher never raises to its caller, so no send_message request
\* whose rows were committed ends with a server error.
C17_PublisherNeverRaises == ~(http.op = "send_message" /\ http.code = 500)

\* C18: publish failure is not fatal. When publish returns false inside an
\* accepted send_message request, the response is 200 with status pending, the
\* prediction is stored Pending, the debit and its ML_Request row are
\* committed and nothing is queued.
C18_PublishFailureNonFatal ==
    [][\A u \in Users, len \in MessageLengths, h \in Histories, slot \in PublisherSlots :
          (send_message(u, len, h, slot)
               /\ has_sufficient_balance(balance, u, ML_REQUEST_COST)
               /\ get_publisher(slot) = "publisher" /\ ~publish(slot)) =>
              LET p == Len(predictions) + 1
              IN  /\ http' = [op |-> "send_message", code |-> 200, status |-> PENDING]
                  /\ Len(predictions') = p
                  /\ predictions'[p].status = PENDING
                  /\ balance'[u] = balance[u] - ML_REQUEST_COST
                  /\ CountFor(transactions', p, ML_REQUEST) = 1
                  /\ CountFor(transactions', p, REFUND) = 0
                  /\ queue' = queue]_vars

\* C18 witness: a request was answered 200 pending, its task never reached the
\* queue, and the prediction is Pending with its debit committed.
C18_Witness ==
    /\ http = [op |-> "send_message", code |-> 200, status |-> PENDING]
    /\ queue = <<>>
    /\ wpc = "idle"
    /\ consumed = {}
    /\ Len(predictions) = 1
    /\ predictions[1].status = PENDING
    /\ CountFor(transactions, 1, ML_REQUEST) = 1
    /\ balance[predictions[1].user_id] = 0

\* C19 (state part): a delivery is acknowledged at most once, never rejected
\* and never handed back for redelivery, and it is not acknowledged while the
\* handler or the retry republish is still under way.
C19_Inv ==
    /\ delivery.acks <= 1
    /\ delivery.rejects = 0
    /\ ~delivery.requeue
    /\ wpc # "idle" => delivery.acks = 0

\* C19 (step part): the acknowledgement is sent by the step that ends
\* process_message, and every way through process_message ends with it: after
\* the handler and the failure path, after an undecodable body, after a
\* handler that raised. The step that returns the worker to the consumption
\* loop touches nothing else.
C19_Step ==
    /\ delivery'.acks > delivery.acks => (wpc = "ack" /\ wpc' = "idle")
    /\ (wpc # "idle" /\ wpc' = "idle") =>
          /\ wpc = "ack"
          /\ delivery.acks = 0
          /\ delivery'.acks = 1
          /\ UNCHANGED <<predictions, balance, transactions, queue>>
    /\ (wpc = "consume" /\ wpc' # "consume") => wpc' = "ack"

\* C19: every delivery is acknowledged exactly once, at the end, without
\* requeue, whatever happened to its body or in its handler.
C19_AckOnce == []C19_Inv /\ [][C19_Step]_vars

\* C19 witness: the handler raised before the task was marked Processing; the
\* delivery was acknowledged once and the worker is back in the loop.
C19_Witness ==
    /\ wpc = "idle"
    /\ delivery.acks = 1
    /\ queue = <<>>
    /\ consumed # {}
    /\ \A p \in consumed : predictions[p].status = PENDING

\* number of Refund rows in a transactions table
RefundRows(s) == Cardinality({i \in DOMAIN s : s[i].type = REFUND})

\* C20: the failure path has no accounting effect. The Consumer's step after a
\* failed result, republishing or giving up, leaves predictions, balances and
\* transactions as they were, and a Refund row is only ever appended by the
\* step that runs handle.
C20_FailurePathKeepsLedger ==
    [][/\ (wpc = "consume" /\ wpc' # "consume" /\ ~wresult.success) =>
              UNCHANGED <<predictions, balance, transactions>>
       /\ RefundRows(transactions') > RefundRows(transactions) =>
              (wpc = "handle" /\ wpc' = "consume")]_vars

\* C20 witness: a task failed with its retries used up and the Consumer gave
\* up on it; the delivery is about to be acknowledged.
C20_Witness ==
    /\ wpc = "ack"
    /\ ~wresult.success
    /\ wtask.retry_count = wtask.max_retries
    /\ wtask.prediction_id \in exhausted
    /\ predictions[wtask.prediction_id].status = FAILED

\* C21: the result always goes through handle. MLWorker.execute returns to the
\* consumer only from the step in which PredictionResultHandler.handle ran on
\* its WorkerResult, in every outcome, a validation failure included.
C21_HandleOnEveryOutcome ==
    [][(wpc # "consume" /\ wpc' = "consume") => wpc = "handle"]_vars

\* the positions of the worker inside MLWorker.execute
InExecute == {"validate", "process", "chat", "handle"}

\* C22: the worker never raises. Every run of MLWorker.execute ends by
\* returning a WorkerResult to the consumer, never by an exception that takes
\* process_message straight to its except clause.
C22_WorkerNeverRaises ==
    [][(wpc \in InExecute /\ wpc' \notin InExecute) => wpc' = "consume"]_vars

\* a first-attempt task of prediction p is in the queue
Published(p) == \E i \in DOMAIN queue : queue[i].prediction_id = p /\ queue[i].retry_count = 0

\* prediction p is Completed or Failed
Terminal(p) == p \in DOMAIN predictions /\ predictions[p].status \in {COMPLETED, FAILED}

\* C24: liveness. With a worker that keeps running, fair delivery and the
\* store available, every prediction whose task was published is eventually
\* Completed or Failed.
C24_EventuallyTerminal == \A p \in 1 .. MaxPredictions : Published(p) ~> Terminal(p)

\* C23: duplicate delivery is tolerated. Once a redelivered task has been
\* worked off (worker idle, queue empty) and the API served nothing since, the
\* prediction statuses, balances and transaction list are what the first
\* delivery left.
C23_DuplicateTolerated ==
    (/\ redelivered.taken
     /\ wpc = "idle"
     /\ queue = <<>>
     /\ deposits = redelivered.deposits
     /\ DOMAIN predictions = DOMAIN redelivered.predictions) =>
        /\ \A p \in DOMAIN predictions :
              predictions[p].status = redelivered.predictions[p].status
        /\ balance = redelivered.balance
        /\ transactions = redelivered.transactions

\* the fields of an MLTaskMessage other than retry_count
OtherFields ==
    {"task_id", "prediction_id", "user_id", "message", "conversation_history", "model_id",
     "priority", "created_at", "max_retries"}

\* C25: increment_retry returns a new message with retry_count one higher and
\* every other field equal to the original's, and leaves the original as it was.
C25_IncrementRetryFrame ==
    [][IncrementRetryCall =>
          LET original == call.objects[1]
              copy == call'.objects[call'.result]
          IN  /\ call'.result # 1
              /\ copy.retry_count = original.retry_count + 1
              /\ DOMAIN copy = OtherFields \cup {"retry_count"}
              /\ \A f \in OtherFields : copy[f] = original[f]
              /\ call'.objects[1] = original]_vars

\* a copy was made of a message that had been retried before and carries a history
C25_Witness ==
    /\ call.op = "increment_retry"
    /\ call.objects[2].retry_count = 2
    /\ call.objects[2].conversation_history = <<ListRoleItem, GoodItem>>
    /\ call.objects[2].priority = "HIGH"

IsOpen(m, ch) == ch # 0 /\ m.channels[ch].open /\ m.connections[m.channels[ch].connection]

\* C27: get_channel always returns an open channel with prefetch count 1,
\* on first use and after the connection or channel was lost or close() was
\* called.
C27_OpenChannelReturned ==
    [][\A c \in Callers :
          (getting[c].pc # "done" /\ getting'[c].pc = "done") =>
              /\ IsOpen(mq', getting'[c].channel)
              /\ mq'.channels[getting'[c].channel].prefetch = 1]_vars

\* a caller was given a second channel on a second connection after close()
C27_Witness ==
    \E c \in Callers :
        /\ getting[c].pc = "done"
        /\ getting[c].channel = 2
        /\ mq.channels[2].connection = 2
        /\ mq.closed = <<"channel", "connection">>

\* C28: close is idempotent and ordered. It closes the channel before the
\* connection, afterwards no open channel and no open connection is held, and
\* a further close (or a close before any connect) changes nothing.
C28_CloseIdempotentOrdered ==
    [][CloseCall =>
          /\ ~IsOpen(mq', mq'.channel)
          /\ mq'.connection = 0 \/ ~mq'.connections[mq'.connection]
          /\ (IsOpen(mq, mq.channel) /\ mq.connections[mq.connection]) =>
                 mq'.closed = <<"channel", "connection">>
          /\ (mq.channel = 0 /\ mq.connection = 0) =>
                 (mq'.closed = <<>> /\ [mq' EXCEPT !.closed = mq.closed] = mq)
          /\ close(mq') = [mq' EXCEPT !.closed = <<>>]]_vars

\* close() has closed an open channel and its open connection
C28_Witness ==
    /\ mq.closed = <<"channel", "connection">>
    /\ mq.channel = 0
    /\ mq.connection = 0
    /\ Len(mq.channels) = 1

\* C29: at most one task is in flight in a worker process. No message is
\* handed to the handler while an earlier delivery is unacknowledged, so two
\* executions of MLWorker.execute never overlap.
C29_OneInFlight == wpc # "overlap"

\* a republished task waits in the queue while the failed delivery is still
\* unacknowledged
C29_Witness ==
    /\ wpc = "ack"
    /\ queue # <<>>
    /\ delivery.acks + delivery.rejects = 0

\* C30: graceful shutdown. The worker process has exited only after the task
\* in flight, if any, ran to completion and was acknowledged, and after the
\* broker connection was released.
C30_GracefulShutdown ==
    runner.state = "exited" =>
        /\ ~runner.in_flight
        /\ mq.connection = 0 \/ ~mq.connections[mq.connection]

\* C31: a Failed prediction carries an error_message; a Completed prediction
\* carries a result and no error_message.
C31_StatusFields ==
    \A p \in DOMAIN predictions :
        /\ predictions[p].status = FAILED => predictions[p].error_message # <<>>
        /\ predictions[p].status = COMPLETED =>
              (predictions[p].result # <<>> /\ predictions[p].error_message = <<>>)

\* a prediction completed on a retry, after an attempt that had failed it
C31_Witness ==
    \E p \in DOMAIN predictions :
        /\ predictions[p].status = COMPLETED
        /\ backend_calls[p] >= 2
        /\ CountFor(transactions, p, REFUND) >= 1

\* C32: refund raises the balance of an existing record by exactly amount and
\* returns true; without a record it returns false and changes nothing; a
\* successful deduct(u, a) followed by refund(u, a) restores the balance table.
C32_Refund ==
    [][\A u \in Users, a \in LedgerAmounts :
          RefundCall(u, a) =>
              /\ \A v \in Users \ {u} : balance'[v] = balance[v]
              /\ IF balance[u] = NoRecord
                 THEN ~call'.ok /\ balance'[u] = NoRecord
                 ELSE call'.ok /\ balance'[u] = balance[u] + a
              /\ (call.op = "deduct" /\ call.ok /\ call.user = u /\ call.amount = a) =>
                     balance' = call.before]_vars

\* a refund credited an existing record with the largest amount
C32_Witness ==
    /\ call.op = "refund"
    /\ call.ok
    /\ call.amount = MaxAmount
    /\ balance[call.user] = call.before[call.user] + MaxAmount

\* C33: add_balance accepts exactly the amounts with 0 < amount <= 10000; it
\* then raises the balance by exactly amount (from zero when there is no
\* record) and appends one Deposit row of +amount; any other amount is answered
\* with 400 and leaves balance and transactions as they were.
C33_AddBalance ==
    [][\A u \in Users, a \in FineAmounts :
          AddBalanceFine(u, a) =>
              IF 0 < a /\ a <= MAX_DEPOSIT * CreditUnits
              THEN /\ http'.code = 200
                   /\ balance' = [balance EXCEPT ![u] = get_balance(balance, u) + a]
                   /\ transactions' = Append(transactions,
                          [user_id |-> u, type |-> DEPOSIT, amount |-> a, ref |-> 0])
              ELSE /\ http'.code = 400
                   /\ UNCHANGED <<balance, transactions>>]_vars

\* a conversation_history that is None or a list of at most 100 objects, each
\* with an allowed 'role' and a 'content' field
Conforming(h) ==
    \/ h.type = "None"
    \/ /\ h.type = "list"
       /\ Len(h.items) <= 100
       /\ \A i \in DOMAIN h.items :
             /\ h.items[i].isDict
             /\ h.items[i].hasRole
             /\ h.items[i].role \in {"user", "assistant", "system"}
             /\ h.items[i].hasContent

\* C34: HistoryValidator reports valid exactly for a conforming history, and
\* CompositeValidator is valid exactly when both of its validators are, with
\* the message errors followed by the history errors.
C34_Validators ==
    call.op = "validate" =>
        /\ (~call.history.raised /\ call.history.errors = <<>>) <=>
               Conforming(call.conversation_history)
        /\ ~call.composite.raised =>
              /\ call.composite.is_valid <=>
                     (MessageValidator(call.message) = <<>> /\ call.history.errors = <<>>)
              /\ call.composite.errors =
                     MessageValidator(call.message) \o call.history.errors

\* an over-long message with a history whose second entry lacks 'content' was
\* reported with both errors, in that order
C34_Witness ==
    /\ call.op = "validate"
    /\ call.message = MAX_LENGTH + 1
    /\ call.conversation_history = [type |-> "list", items |-> <<GoodItem, NoContentItem>>]
    /\ Len(call.composite.errors) = 2
    /\ call.composite.errors[2].item = 1

\* C35: the Consumer consumes from the queue the Publisher publishes to. Once
\* send_message has committed a request and turned to the publisher, the
\* publisher's queue declaration exists and has the name, durability, TTL and
\* maximum length of the consumer's declaration, and the routing key is that
\* queue name.
C35_SameQueue ==
    (http.op = "send_message" /\ http.code \in {200, 500}) =>
        /\ ~PublisherDeclaration.raised
        /\ PublisherDeclaration = ConsumerDeclaration
        /\ PublisherRoutingKey = ConsumerDeclaration.name

\* C36: for a task that passed validation the prediction is marked Processing
\* before the inference backend is called, and the backend is called at most
\* once per execute. The backend is called only in the step that follows
\* mark_processing, that step counts one call for the task's prediction and
\* finds an existing prediction in status Processing, and the only way back to
\* a backend call leads through the end of execute and a new delivery.
C36_ProcessingBeforeBackend ==
    [][/\ (\E p \in DOMAIN backend_calls : backend_calls'[p] # backend_calls[p]) =>
            /\ wpc = "chat" /\ wpc' = "handle"
            /\ backend_calls' = [backend_calls EXCEPT ![wtask.prediction_id] = @ + 1]
            /\ wtask.prediction_id \in DOMAIN predictions =>
                  predictions[wtask.prediction_id].status = PROCESSING
       /\ (wpc # "chat" /\ wpc' = "chat") => wpc = "process"
       /\ (wpc # "process" /\ wpc' = "process") => wpc = "validate"
       /\ (wpc # "validate" /\ wpc' = "validate") => wpc = "idle"]_vars

\* a retried task at its second backend call: the prediction, Failed after the
\* first attempt, was marked Processing again before the call
C36_Witness ==
    /\ wpc = "handle"
    /\ wtask.retry_count >= 1
    /\ backend_calls[wtask.prediction_id] >= 2
    /\ predictions[wtask.prediction_id].status = PROCESSING

\* C37: both counters start at 0, and each completed call of execute raises
\* exactly one of them by one: processed_count when the returned result has
\* success = true, failed_count otherwise, validation failure included. No
\* other step, and no execute that ends in an exception, moves a counter, so
\* their sum is the number of completed execute calls.
C37_Counters ==
    /\ counts = [processed_count |-> 0, failed_count |-> 0]
    /\ [][/\ (wpc \in InExecute /\ wpc' = "consume") =>
               /\ wresult'.success =>
                     counts' = [counts EXCEPT !.processed_count = @ + 1]
               /\ ~wresult'.success =>
                     counts' = [counts EXCEPT !.failed_count = @ + 1]
          /\ counts' # counts => (wpc \in InExecute /\ wpc' = "consume")]_vars

\* a worker that has returned a failed and a successful result
C37_Witness ==
    /\ wpc = "consume"
    /\ wresult.success
    /\ counts.processed_count = 1
    /\ counts.failed_count >= 1

\* C38: retry terminates. For every prediction the task is handed to the
\* handler at most max_retries + 1 times, the original and one republished
\* copy per retry, so the inference backend is called at most max_retries + 1
\* times for it; and from some point on no message of that prediction is
\* queued or in processing.
C38_RetryTerminates ==
    /\ [](\A p \in PredictionIds :
             /\ deliveries[p] <= DEFAULT_MAX_RETRIES + 1
             /\ p \in DOMAIN backend_calls => backend_calls[p] <= deliveries[p])
    /\ \A p \in PredictionIds : <>[](~Pending(p))

\* the last permitted delivery of a task has failed at the backend and nothing
\* of the prediction is left in the queue
C38_Witness ==
    \E p \in DOMAIN predictions :
        /\ deliveries[p] = DEFAULT_MAX_RETRIES + 1
        /\ backend_calls[p] = DEFAULT_MAX_RETRIES + 1
        /\ p \in exhausted
        /\ ~Pending(p)

\* C39: the broker connection is a singleton under concurrency. Whatever the
\* interleaving of the callers of connect and get_channel, every connection
\* and every channel that is open is the one the RabbitMQConnection object
\* holds: none was opened beside it or overwritten while open.
C39_Singleton ==
    /\ \A k \in DOMAIN mq.connections : mq.connections[k] => k = mq.connection
    /\ \A ch \in DOMAIN mq.channels : mq.channels[ch].open => ch = mq.channel

\* C40: in every committed state every user's balance is >= 0, whatever the
\* interleaving of the sessions of send_message, add_balance and the worker's
\* refund on the same user's row, each writing a value computed from its read.
C40_BalanceNonNegative == \A u \in Users : get_balance(balance, u) >= 0

\* two send_message sessions read the same balance of one request's cost and
\* both committed their debit: two predictions charged, balance 0
C40_Witness ==
    \E u \in Users :
        /\ balance[u] = 0
        /\ Cardinality({p \in DOMAIN predictions : predictions[p].user_id = u}) = 2
        /\ Cardinality({i \in DOMAIN transactions :
               transactions[i].user_id = u /\ transactions[i].type = DEPOSIT}) = 1
        /\ ~\E i \in DOMAIN transactions : transactions[i].type = REFUND
====
